---- MODULE Spec2Model ----
(***************************************************************************)
(* Model of the widget-key tree of plume (src/plume/rdf/widgetkey.py).     *)
(*                                                                         *)
(* The heap of key objects is the sequence `keys`: a key is its index, 0   *)
(* stands for None.  Every method of the source is an operator that takes  *)
(* a world w = [keys, book, nocomp, exc, passes] and gives the world      *)
(* after the call; w.exc names the exception that is propagating ("none"   *)
(* when none), and an operator applied to a world whose exception          *)
(* propagates leaves it unchanged, as the statements that follow a raise   *)
(* are not executed.  w.passes lists the groups whose rows compute_rows    *)
(* went over since the call began.                                         *)
(***************************************************************************)
EXTENDS Integers, Sequences, FiniteSets, TLC

VARIABLES keys, book, no_computation, ret

vars == <<keys, book, no_computation, ret>>

(***************************************************************************)
(* Bounds of the model.                                                    *)
(***************************************************************************)
MaxTwinKeys == 5

(***************************************************************************)
(* Python values.  None is <<>>, a str is <<0, c>> (c its content), an     *)
(* rdflib URIRef or path is <<1, p1, ..., pn>> (the predicates it chains). *)
(* str() of a str is that str; str() of a path is a str, never the path.   *)
(***************************************************************************)
PyNone == <<>>

PyStr(c) == <<0, c>>

PyPath(ps) == <<1>> \o ps

Str(x) == IF x[1] = 0 THEN x ELSE <<0>> \o x

StrOrNone(x) == IF x = PyNone THEN PyNone ELSE Str(x)

Unknown == PyStr(0)

LastIdx == 9999

NoRow == -1

langlist == <<"fr", "en">>

InSeq(x, s) == \E i \in 1..Len(s) : s[i] = x

RemoveFirst(s, x) ==
    LET i == CHOOSE j \in 1..Len(s) : s[j] = x /\ \A l \in 1..(j-1) : s[l] # x
    IN  SubSeq(s, 1, i-1) \o SubSeq(s, i+1, Len(s))

(***************************************************************************)
(* The actions book.  Its class is not part of the sources at hand: each   *)
(* list is taken to be a plain list, and append to add at its end.         *)
(***************************************************************************)
ActionsBook ==
    [create |-> <<>>, drop |-> <<>>, move |-> <<>>, show |-> <<>>,
     hide |-> <<>>, show_minus_button |-> <<>>, hide_minus_button |-> <<>>,
     languages |-> <<>>, sources |-> <<>>, thesaurus |-> <<>>]

Record(w, list, k) == [w EXCEPT !.book[list] = Append(@, k)]

(***************************************************************************)
(* Worlds and keys.                                                        *)
(***************************************************************************)
Failed(w) == w.exc # "none"

Raise(w, e) == [w EXCEPT !.exc = e]

\* the statements of a method in sequence: F is applied to what the
\* statement before it gives
Then(v, F(_)) == F(v)

K(w, k) == w.keys[k]

SetF(w, k, f, v) == [w EXCEPT !.keys[k][f] = v]

\* WidgetKey.__init__ up to _base_attributes, for every class
NewKey(cls, is_ghost) ==
    [cls |-> cls, unborn |-> TRUE, row |-> NoRow, single |-> FALSE,
     ghost |-> is_ghost, parent |-> 0, hidden_m |-> FALSE, order_idx |-> 0,
     predicate |-> 0, label |-> PyNone, description |-> PyNone,
     m_twin |-> 0, main_twin |-> FALSE, children |-> <<>>, button |-> 0,
     available_languages |-> IF cls = "TranslationGroupKey" THEN langlist ELSE <<>>,
     rdftype |-> 0, with_minus_buttons |-> FALSE, xsdtype |-> "None",
     value |-> 0, value_language |-> "None", rowspan |-> 0,
     independant_label |-> FALSE, sources |-> <<>>, value_source |-> 0]

IsA(w, k, classes) == k # 0 /\ K(w, k).cls \in classes

GroupOfValuesClasses == {"GroupOfValuesKey", "TranslationGroupKey"}

GroupClasses == {"RootKey", "TabKey", "GroupOfPropertiesKey",
                 "GroupOfValuesKey", "TranslationGroupKey"}

ObjectClasses == {"ValueKey", "GroupOfPropertiesKey"}

InGroupOfValues(w, k) == IsA(w, K(w, k).parent, GroupOfValuesClasses)

\* WidgetKey.__bool__
Bool(w, k) == k # 0 /\ ~K(w, k).ghost

HasTwin(w, k) == Bool(w, K(w, k).m_twin)

\* TranslationButtonKey.is_hidden_b, WidgetKey.is_hidden_b
is_hidden_b(w, k) ==
    IF K(w, k).cls = "TranslationButtonKey"
    THEN K(w, K(w, k).parent).available_languages = <<>>
    ELSE FALSE

is_hidden(w, k) == ~Bool(w, k) \/ is_hidden_b(w, k) \/ K(w, k).hidden_m

is_single_child(w, k) == Bool(w, k) /\ K(w, k).single

has_minus_button(w, k) ==
    IF IsA(w, k, ObjectClasses) /\ InGroupOfValues(w, k)
    THEN Bool(w, k) /\ K(w, K(w, k).parent).with_minus_buttons
    ELSE FALSE

rowspan(w, k) ==
    IF K(w, k).cls = "ValueKey" THEN K(w, k).rowspan
    ELSE IF Bool(w, k) THEN 1 ELSE 0

row(w, k) == IF Bool(w, k) THEN K(w, k).row ELSE NoRow

independant_label(w, k) ==
    IF K(w, k).cls = "ValueKey" THEN K(w, k).independant_label ELSE FALSE

predicate(w, k) ==
    IF IsA(w, k, ObjectClasses) /\ InGroupOfValues(w, k)
    THEN K(w, K(w, k).parent).predicate
    ELSE K(w, k).predicate

RECURSIVE path(_, _)
path(w, k) ==
    LET p == K(w, k).parent IN
    CASE K(w, k).cls = "RootKey" -> <<>>
      [] K(w, k).cls = "TabKey" -> path(w, p)
      [] K(w, k).cls \in ObjectClasses /\ InGroupOfValues(w, k) -> path(w, p)
      [] OTHER -> path(w, p) \o <<predicate(w, k)>>

label(w, k) ==
    IF InGroupOfValues(w, k) THEN PyNone
    ELSE IF K(w, k).label # PyNone THEN K(w, k).label ELSE Unknown

description(w, k) ==
    IF InGroupOfValues(w, k) THEN PyNone
    ELSE IF K(w, k).label = PyNone /\ K(w, k).description = PyNone
         THEN PyPath(path(w, k))
         ELSE K(w, k).description

\* GroupKey.real_children
real_children(w, g) == SelectSeq(K(w, g).children, LAMBDA c : Bool(w, c))

(***************************************************************************)
(* GroupKey.compute_rows and GroupOfValuesKey.compute_rows.                *)
(***************************************************************************)
RECURSIVE InsertByOrder(_, _, _)
InsertByOrder(w, sorted, x) ==
    IF sorted = <<>> THEN <<x>>
    ELSE IF K(w, sorted[Len(sorted)]).order_idx <= K(w, x).order_idx
         THEN Append(sorted, x)
         ELSE Append(InsertByOrder(w, SubSeq(sorted, 1, Len(sorted) - 1), x),
                     sorted[Len(sorted)])

RECURSIVE SortByOrder(_, _)
SortByOrder(w, s) ==
    IF s = <<>> THEN <<>>
    ELSE InsertByOrder(w, SortByOrder(w, SubSeq(s, 1, Len(s) - 1)), s[Len(s)])

\* list.sort(key=lambda x: x.order_idx): comparing None raises TypeError
children_sort(w, g) ==
    LET s == K(w, g).children IN
    IF Len(s) >= 2 /\ \E i \in 1..Len(s) : K(w, s[i]).order_idx = 0
    THEN Raise(w, "TypeError")
    ELSE SetF(w, g, "children", SortByOrder(w, s))

\* the loop that gives the two twins of a pair a row each
RECURSIVE RowsLoop_with_twins(_, _, _, _)
RowsLoop_with_twins(w, s, i, n) ==
    IF i > Len(s) THEN [w |-> w, n |-> n]
    ELSE LET c == s[i]
             n1 == IF independant_label(w, c) THEN n + 1 ELSE n
             w1 == IF row(w, c) # n1
                   THEN Record(SetF(w, c, "row", n1), "move", c)
                   ELSE w
         IN  RowsLoop_with_twins(w1, s, i + 1, n1 + rowspan(w1, c))

\* the loop without its test of row
RECURSIVE RowsLoop_unguarded(_, _, _, _)
RowsLoop_unguarded(w, s, i, n) ==
    IF i > Len(s) THEN [w |-> w, n |-> n]
    ELSE IF IsA(w, s[i], ObjectClasses) /\ HasTwin(w, s[i])
            /\ ~K(w, s[i]).main_twin
         THEN RowsLoop_unguarded(w, s, i + 1, n)
         ELSE RowsLoop_unguarded(
                  Record(SetF(w, s[i], "row",
                              IF independant_label(w, s[i]) THEN n + 1 ELSE n),
                         "move", s[i]),
                  s, i + 1,
                  (IF independant_label(w, s[i]) THEN n + 1 ELSE n)
                      + rowspan(w, s[i]))

RECURSIVE RowsLoop(_, _, _, _)
RowsLoop(w, s, i, n) ==
    IF i > Len(s) THEN [w |-> w, n |-> n]
    ELSE LET c == s[i] IN
         IF IsA(w, c, ObjectClasses) /\ HasTwin(w, c) /\ ~K(w, c).main_twin
         THEN RowsLoop(w, s, i + 1, n)
         ELSE LET n1 == IF independant_label(w, c) THEN n + 1 ELSE n
                  w1 == IF row(w, c) # n1
                        THEN Record(SetF(w, c, "row", n1), "move", c)
                        ELSE w
              IN  RowsLoop(w1, s, i + 1, n1 + rowspan(w1, c))

GroupKey_compute_rows(w, g) ==
    Then(IF K(w, g).cls \in GroupOfValuesClasses THEN w
         ELSE children_sort(w, g), LAMBDA w1 :
    IF Failed(w1) THEN [w |-> w1, n |-> 0]
    ELSE RowsLoop(w1, real_children(w1, g), 1, 0))

\* compute_rows that does not look at no_computation
compute_rows_always(w, g) ==
    IF Failed(w) THEN w
    ELSE IF ~Bool(w, g) THEN w
    ELSE IF K(w, g).cls = "TabKey" THEN Raise(w, "AttributeError")
    ELSE Then(GroupKey_compute_rows([w EXCEPT !.passes = Append(@, g)], g),
              LAMBDA r :
         LET b == K(r.w, g).button IN
         IF Failed(r.w) \/ K(w, g).cls \notin GroupOfValuesClasses THEN r.w
         ELSE IF Bool(r.w, b) /\ row(r.w, b) # r.n
              THEN Record(SetF(r.w, b, "row", r.n), "move", b)
              ELSE r.w)

compute_rows(w, g) ==
    IF Failed(w) THEN w
    ELSE IF ~Bool(w, g) \/ w.nocomp THEN w
    ELSE IF K(w, g).cls = "TabKey" THEN Raise(w, "AttributeError")
    ELSE Then(GroupKey_compute_rows([w EXCEPT !.passes = Append(@, g)], g),
              LAMBDA r :
         LET b == K(r.w, g).button IN
         IF Failed(r.w) \/ K(w, g).cls \notin GroupOfValuesClasses THEN r.w
         ELSE IF Bool(r.w, b) /\ row(r.w, b) # r.n
              THEN Record(SetF(r.w, b, "row", r.n), "move", b)
              ELSE r.w)

(***************************************************************************)
(* GroupOfValuesKey.compute_single_children.                               *)
(***************************************************************************)
true_children_count(w, g) ==
    Cardinality({i \in 1..Len(real_children(w, g)) :
        LET c == real_children(w, g)[i]
        IN  ~HasTwin(w, c) \/ K(w, c).main_twin})

\* the loop without its tests of is_single_child
RECURSIVE SingleLoop_unguarded(_, _, _, _)
SingleLoop_unguarded(w, s, i, count) ==
    IF i > Len(s) THEN w
    ELSE SingleLoop_unguarded(
             IF count >= 2
             THEN Record(SetF(w, s[i], "single", FALSE),
                         "show_minus_button", s[i])
             ELSE Record(SetF(w, s[i], "single", TRUE),
                         "hide_minus_button", s[i]),
             s, i + 1, count)

RECURSIVE SingleLoop(_, _, _, _)
SingleLoop(w, s, i, count) ==
    IF i > Len(s) THEN w
    ELSE LET c == s[i]
             w1 == IF count >= 2 /\ is_single_child(w, c)
                   THEN Record(SetF(w, c, "single", FALSE), "show_minus_button", c)
                   ELSE w
             w2 == IF count < 2 /\ ~is_single_child(w1, c)
                   THEN Record(SetF(w1, c, "single", TRUE), "hide_minus_button", c)
                   ELSE w1
         IN  SingleLoop(w2, s, i + 1, count)

compute_single_children(w, g) ==
    IF Failed(w) THEN w
    ELSE IF K(w, g).cls \notin GroupOfValuesClasses THEN w
    ELSE IF ~Bool(w, g) \/ w.nocomp THEN w
    ELSE SingleLoop(w, real_children(w, g), 1, true_children_count(w, g))

(***************************************************************************)
(* _hide_m: WidgetKey, GroupKey, GroupOfPropertiesKey, GroupOfValuesKey    *)
(* and ValueKey.                                                           *)
(***************************************************************************)
WidgetKey_hide_m(w, k, value) ==
    IF ~Bool(w, k) THEN w
    ELSE LET old_value == K(w, k).hidden_m
             w1 == SetF(w, k, "hidden_m", value)
         IN  IF ~value /\ old_value THEN Record(w1, "show", k)
             ELSE IF value /\ ~old_value THEN Record(w1, "hide", k)
             ELSE w1

\* the test that opens GroupOfPropertiesKey._hide_m and ValueKey._hide_m
hide_m_skipped(w, k, value, rec) ==
    rec /\ value /\ HasTwin(w, k) /\ ~K(w, k).main_twin

RECURSIVE hide_m(_, _, _, _)
RECURSIVE HideLoop(_, _, _, _)
HideLoop(w, s, i, value) ==
    IF i > Len(s) THEN w
    ELSE HideLoop(hide_m(w, s[i], value, TRUE), s, i + 1, value)

GroupKey_hide_m(w, k, value, rec) ==
    Then(WidgetKey_hide_m(w, k, value), LAMBDA w1 :
    IF K(w, k).cls = "TabKey" THEN Raise(w1, "AttributeError") ELSE
    Then(HideLoop(w1, real_children(w1, k), 1, value), LAMBDA w2 :
    IF value /\ ~K(w2, k).unborn THEN compute_rows(w2, k) ELSE w2))

hide_m(w, k, value, rec) ==
    IF Failed(w) THEN w
    ELSE CASE K(w, k).cls = "ValueKey" ->
                IF hide_m_skipped(w, k, value, rec) THEN w
                ELSE WidgetKey_hide_m(w, k, value)
           [] K(w, k).cls = "GroupOfPropertiesKey" ->
                IF hide_m_skipped(w, k, value, rec) THEN w
                ELSE GroupKey_hide_m(w, k, value, rec)
           [] K(w, k).cls \in GroupOfValuesClasses ->
                Then(GroupKey_hide_m(w, k, value, rec), LAMBDA w1 :
                IF Failed(w1) \/ ~Bool(w1, K(w1, k).button) THEN w1
                ELSE hide_m(w1, K(w1, k).button, value, rec))
           [] K(w, k).cls \in {"TabKey", "RootKey"} ->
                GroupKey_hide_m(w, k, value, rec)
           [] OTHER -> WidgetKey_hide_m(w, k, value)

(***************************************************************************)
(* ObjectKey: the setters of the attributes twins share, of m_twin,        *)
(* is_hidden_m and is_main_twin.                                           *)
(***************************************************************************)
predicate_setter(w, k, value) ==
    IF Failed(w) \/ InGroupOfValues(w, k) THEN w
    ELSE LET t == K(w, k).m_twin
             v == IF HasTwin(w, k) /\ (~K(w, k).main_twin \/ value = 0)
                  THEN predicate(w, t) ELSE value
             w1 == SetF(w, k, "predicate", v)
         IN  IF v = 0 THEN Raise(w, "MissingParameter")
             ELSE IF HasTwin(w, k) /\ v # predicate(w1, t) /\ K(w, k).main_twin
                  THEN SetF(w1, t, "predicate", v)
                  ELSE w1

label_setter(w, k, value) ==
    IF Failed(w) THEN w
    ELSE IF InGroupOfValues(w, k) THEN SetF(w, k, "label", PyNone)
    ELSE LET t == K(w, k).m_twin
             v == StrOrNone(IF HasTwin(w, k) /\ ~K(w, k).main_twin
                            THEN label(w, t) ELSE value)
             w1 == SetF(w, k, "label", v)
         IN  IF HasTwin(w, k) /\ K(w, k).main_twin
             THEN SetF(w1, t, "label", v)
             ELSE w1

description_setter(w, k, value) ==
    IF Failed(w) THEN w
    ELSE IF InGroupOfValues(w, k) THEN SetF(w, k, "description", PyNone)
    ELSE LET t == K(w, k).m_twin
             v == StrOrNone(IF HasTwin(w, k) /\ ~K(w, k).main_twin
                            THEN description(w, t) ELSE value)
             w1 == SetF(w, k, "description", v)
         IN  IF HasTwin(w, k) /\ K(w, k).main_twin
             THEN SetF(w1, t, "description", v)
             ELSE w1

\* order_idx_setter that keeps the value in a group of values too
order_idx_setter_everywhere(w, k, value) ==
    IF Failed(w) THEN w
    ELSE LET w1 == SetF(w, k, "order_idx", IF value = 0 THEN LastIdx ELSE value)
         IN  IF K(w, k).unborn THEN w1 ELSE compute_rows(w1, K(w, k).parent)

\* WidgetKey.order_idx (setter) and its rewriting in ObjectKey
order_idx_setter(w, k, value) ==
    IF Failed(w) THEN w
    ELSE LET t == K(w, k).m_twin
             twinned == IsA(w, k, ObjectClasses) /\ HasTwin(w, k)
             v0 == IF twinned /\ ~K(w, k).main_twin
                   THEN K(w, t).order_idx ELSE value
             v == IF v0 = 0 THEN LastIdx ELSE v0
             w1 == IF InGroupOfValues(w, k) THEN SetF(w, k, "order_idx", 0)
                   ELSE IF twinned /\ K(w, k).main_twin
                   THEN SetF(SetF(w, k, "order_idx", v), t, "order_idx", v)
                   ELSE SetF(w, k, "order_idx", v)
         IN  IF K(w, k).unborn THEN w1 ELSE compute_rows(w1, K(w, k).parent)

\* value is "None", "True" or "False"
is_main_twin_setter(w, k, value) ==
    IF Failed(w) THEN w
    ELSE LET t == K(w, k).m_twin
             v == IF value = "None" THEN K(w, k).cls = "ValueKey"
                  ELSE value = "True"
         IN  IF ~HasTwin(w, k) THEN SetF(w, k, "main_twin", FALSE)
             ELSE IF ~K(w, k).hidden_m
                  THEN SetF(SetF(w, k, "main_twin", TRUE), t, "main_twin", FALSE)
             ELSE IF ~K(w, t).hidden_m
                  THEN SetF(SetF(w, k, "main_twin", FALSE), t, "main_twin", TRUE)
             ELSE SetF(SetF(w, k, "main_twin", v), t, "main_twin", ~v)

\* is_hidden_m_setter that computes the rows of the parent a second time
is_hidden_m_setter_rows_twice(w, k, value) ==
    IF Failed(w) THEN w
    ELSE IF ~Bool(w, k) \/ K(w, K(w, k).parent).hidden_m \/ ~HasTwin(w, k) THEN w
    ELSE Then(hide_m(w, k, value, FALSE), LAMBDA w1 :
         Then(hide_m(w1, K(w, k).m_twin, ~value, FALSE), LAMBDA w2 :
         IF K(w, k).unborn THEN w2
         ELSE compute_rows(
                  compute_rows(
                      is_main_twin_setter(w2, k,
                          IF K(w2, k).hidden_m THEN "False" ELSE "True"),
                      K(w, k).parent),
                  K(w, k).parent)))

is_hidden_m_setter(w, k, value) ==
    IF Failed(w) THEN w
    ELSE IF ~Bool(w, k) \/ K(w, K(w, k).parent).hidden_m \/ ~HasTwin(w, k) THEN w
    ELSE Then(hide_m(w, k, value, FALSE), LAMBDA w1 :
         Then(hide_m(w1, K(w, k).m_twin, ~value, FALSE), LAMBDA w2 :
         IF K(w, k).unborn THEN w2
         ELSE compute_rows(
                  is_main_twin_setter(w2, k,
                      IF K(w2, k).hidden_m THEN "False" ELSE "True"),
                  K(w, k).parent)))

twin_class(cls) ==
    IF cls = "ValueKey" THEN "GroupOfPropertiesKey" ELSE "ValueKey"

\* m_twin_setter without the test of the ghost that receives
m_twin_setter_on_ghost(w, k, value) ==
    IF Failed(w) THEN w
    ELSE IF value # 0 /\ ~Bool(w, value) THEN w
    ELSE IF value # 0 /\ K(w, value).cls # twin_class(K(w, k).cls)
         THEN Raise(w, "ForbiddenOperation")
    ELSE IF value # 0 /\ K(w, k).parent # K(w, value).parent
         THEN Raise(w, "ForbiddenOperation")
    ELSE IF value # 0
         THEN SetF(SetF(w, k, "m_twin", value), value, "m_twin", k)
         ELSE SetF(w, k, "m_twin", value)

m_twin_setter(w, k, value) ==
    IF Failed(w) THEN w
    ELSE IF value # 0 /\ ~Bool(w, value) THEN w
    ELSE IF value # 0 /\ ~Bool(w, k) THEN Raise(w, "ForbiddenOperation")
    ELSE IF value # 0 /\ K(w, value).cls # twin_class(K(w, k).cls)
         THEN Raise(w, "ForbiddenOperation")
    ELSE IF value # 0 /\ K(w, k).parent # K(w, value).parent
         THEN Raise(w, "ForbiddenOperation")
    ELSE Then(IF value # 0
              THEN SetF(SetF(w, k, "m_twin", value), value, "m_twin", k)
              ELSE SetF(w, k, "m_twin", value), LAMBDA w2 :
         IF K(w, k).unborn THEN w2
         ELSE
         Then(is_hidden_m_setter(w2, k, K(w2, k).hidden_m), LAMBDA w3 :
         Then(predicate_setter(w3, k, predicate(w3, k)), LAMBDA w4 :
         Then(label_setter(w4, k, label(w4, k)), LAMBDA w5 :
         Then(description_setter(w5, k, description(w5, k)), LAMBDA w6 :
         Then(order_idx_setter(w6, k, K(w6, k).order_idx), LAMBDA w7 :
         compute_single_children(w7, K(w, k).parent)))))))

(***************************************************************************)
(* TranslationGroupKey.language_in and language_out.                       *)
(***************************************************************************)
RECURSIVE RecordAll(_, _, _, _)
RecordAll(w, list, s, i) ==
    IF i > Len(s) THEN w
    ELSE RecordAll(Record(w, list, s[i]), list, s, i + 1)

\* language_in without its tests
language_in_unguarded(w, g, lang) ==
    IF Failed(w) THEN w
    ELSE RecordAll(SetF(w, g, "available_languages",
                        Append(K(w, g).available_languages, lang)),
                   "languages", real_children(w, g), 1)

language_in(w, g, lang) ==
    IF Failed(w) THEN w
    ELSE IF ~InSeq(lang, langlist)
            \/ InSeq(lang, K(w, g).available_languages) THEN w
    ELSE LET w1 == SetF(w, g, "available_languages",
                        Append(K(w, g).available_languages, lang))
             w2 == RecordAll(w1, "languages", real_children(w1, g), 1)
         IN  IF Bool(w2, K(w2, g).button)
                /\ Len(K(w2, g).available_languages) = 1
             THEN Record(w2, "show", K(w2, g).button)
             ELSE w2

\* language_out that leaves the pool as it is
language_out_nothing(w, g, lang) == w

language_out(w, g, lang) ==
    IF Failed(w) THEN w
    ELSE IF ~InSeq(lang, K(w, g).available_languages) THEN w
    ELSE LET w1 == SetF(w, g, "available_languages",
                        RemoveFirst(K(w, g).available_languages, lang))
             w2 == RecordAll(w1, "languages", real_children(w1, g), 1)
         IN  IF K(w2, g).available_languages = <<>> /\ Bool(w2, K(w2, g).button)
             THEN Record(w2, "hide", K(w2, g).button)
             ELSE w2

(***************************************************************************)
(* ValueKey: getters and setters.                                          *)
(***************************************************************************)
main_language == langlist[1]

rdftype(w, k) ==
    CASE K(w, k).cls = "TranslationGroupKey" -> 0
      [] K(w, k).cls \in ObjectClasses /\ InGroupOfValues(w, k) ->
            IF K(w, K(w, k).parent).cls = "TranslationGroupKey" THEN 0
            ELSE K(w, K(w, k).parent).rdftype
      [] OTHER -> K(w, k).rdftype

xsdtype(w, k) ==
    IF K(w, k).cls = "ValueKey" /\ InGroupOfValues(w, k)
    THEN K(w, K(w, k).parent).xsdtype
    ELSE K(w, k).xsdtype

value_language(w, k) ==
    IF K(w, k).value_language # "None" THEN K(w, k).value_language
    ELSE IF xsdtype(w, k) = "rdf:langString" THEN main_language
    ELSE "None"

\* ValueKey.available_languages
available_languages(w, k) ==
    IF IsA(w, K(w, k).parent, {"TranslationGroupKey"})
    THEN K(w, K(w, k).parent).available_languages
    ELSE <<>>

\* value_language_setter taking the last available language
value_language_setter_last(w, k, value) ==
    IF Failed(w) THEN w
    ELSE LET p == K(w, k).parent
             al == available_languages(w, k)
             v == IF value = "None" /\ al # <<>> THEN al[Len(al)] ELSE value
         IN  IF v = "None" THEN Raise(w, "IntegrityBreach")
             ELSE SetF(language_out(language_in(w, p, K(w, k).value_language),
                                    p, v),
                       k, "value_language", v)

\* value_language_setter with language_out before language_in
value_language_setter_out_first(w, k, value) ==
    IF Failed(w) THEN w
    ELSE LET p == K(w, k).parent
             al == available_languages(w, k)
             v == IF value = "None" /\ al # <<>> THEN al[1] ELSE value
         IN  IF v = "None" THEN Raise(w, "IntegrityBreach")
             ELSE SetF(language_in(language_out(w, p, v), p,
                                   K(w, k).value_language),
                       k, "value_language", v)

\* values of the model are never rdflib literals: the language of a value
\* is always given by value_language
value_language_setter(w, k, value) ==
    IF Failed(w) THEN w
    ELSE LET p == K(w, k).parent
             v0 == IF xsdtype(w, k) # "rdf:langString" THEN "None" ELSE value
             v == IF v0 = "None" /\ available_languages(w, k) # <<>>
                  THEN available_languages(w, k)[1] ELSE v0
             w1 == language_in(w, p, K(w, k).value_language)
             w2 == language_out(w1, p, v)
         IN  IF IsA(w, p, {"TranslationGroupKey"})
             THEN IF v = "None" THEN Raise(w, "IntegrityBreach")
                  ELSE SetF(w2, k, "value_language", v)
             ELSE IF value_language(w, k) # v0
                  THEN SetF(Record(w, "languages", k), k, "value_language", v0)
                  ELSE SetF(w, k, "value_language", v0)

\* ValueKey.sources, GroupOfPropertiesKey.sources, GroupOfValuesKey.sources
\* and TranslationGroupKey.sources; <<>> stands for None
sources(w, k) ==
    CASE K(w, k).cls = "ValueKey" ->
            IF ~InGroupOfValues(w, k) THEN K(w, k).sources
            ELSE IF K(w, K(w, k).parent).cls = "TranslationGroupKey" THEN <<>>
            ELSE K(w, K(w, k).parent).sources
      [] K(w, k).cls = "GroupOfPropertiesKey" ->
            IF ~HasTwin(w, k) THEN <<>>
            ELSE IF ~InGroupOfValues(w, k) THEN K(w, K(w, k).m_twin).sources
            ELSE IF K(w, K(w, k).parent).cls = "TranslationGroupKey" THEN <<>>
            ELSE K(w, K(w, k).parent).sources
      [] K(w, k).cls = "GroupOfValuesKey" -> K(w, k).sources
      [] OTHER -> <<>>

value_source_setter(w, k, value) ==
    IF Failed(w) \/ sources(w, k) = <<>> THEN w
    ELSE LET v == IF InSeq(value, sources(w, k)) THEN value ELSE 0
         IN  IF v # K(w, k).value_source
             THEN Record(Record(SetF(w, k, "value_source", v), "sources", k),
                         "thesaurus", k)
             ELSE SetF(w, k, "value_source", v)

\* the loop of GroupOfValuesKey.sources (setter) over the children
RECURSIVE SourcesLoop(_, _, _)
SourcesLoop(w, s, i) ==
    IF i > Len(s) THEN w
    ELSE Then(IF K(w, s[i]).cls = "ValueKey" /\ K(w, s[i]).value_source # 0
              THEN value_source_setter(w, s[i], K(w, s[i]).value_source)
              ELSE w, LAMBDA w1 :
         SourcesLoop(
             IF K(w1, s[i]).cls = "ValueKey" \/ HasTwin(w1, s[i])
             THEN IF HasTwin(w1, s[i])
                  THEN Record(Record(w1, "sources", s[i]),
                              "sources", K(w1, s[i]).m_twin)
                  ELSE Record(w1, "sources", s[i])
             ELSE w1, s, i + 1))

sources_setter(w, k, value) ==
    IF Failed(w) THEN w
    ELSE CASE K(w, k).cls = "ValueKey" ->
                IF InGroupOfValues(w, k) \/ sources(w, k) = value THEN w
                ELSE Then(Record(SetF(w, k, "sources", value), "sources", k),
                          LAMBDA w1 :
                     IF ~K(w1, k).unborn /\ K(w1, k).value_source # 0
                     THEN value_source_setter(w1, k, K(w1, k).value_source)
                     ELSE w1)
           [] K(w, k).cls = "GroupOfValuesKey" ->
                IF value = K(w, k).sources THEN w
                ELSE IF K(w, k).unborn THEN SetF(w, k, "sources", value)
                ELSE SourcesLoop(SetF(w, k, "sources", value),
                                 K(w, k).children, 1)
           [] K(w, k).cls = "TranslationGroupKey" -> SetF(w, k, "sources", <<>>)
           [] OTHER -> w

rowspan_setter(w, k, value) ==
    IF Failed(w) THEN w
    ELSE LET v == IF ~Bool(w, k) THEN 0 ELSE IF value = 0 THEN 1 ELSE value
             w1 == SetF(w, k, "rowspan", v)
         IN  IF K(w, k).unborn THEN w1 ELSE compute_rows(w1, K(w, k).parent)

independant_label_setter(w, k, value) ==
    IF Failed(w) THEN w
    ELSE LET w1 == SetF(w, k, "independant_label", value)
         IN  IF K(w, k).unborn THEN w1 ELSE compute_rows(w1, K(w, k).parent)

\* ValueKey.xsdtype (setter), GroupOfValuesKey.xsdtype (setter) and
\* TranslationGroupKey.xsdtype (setter), on a key that is being built
xsdtype_setter(w, k, value) ==
    IF Failed(w) THEN w
    ELSE IF K(w, k).cls = "TranslationGroupKey"
         THEN SetF(w, k, "xsdtype", "rdf:langString")
    ELSE IF K(w, k).cls = "ValueKey" /\ InGroupOfValues(w, k) THEN w
    ELSE SetF(w, k, "xsdtype",
              IF rdftype(w, k) # 0 THEN "None"
              ELSE IF value = "None" THEN "xsd:string" ELSE value)

\* GroupOfPropertiesKey.rdftype, GroupOfValuesKey.rdftype, ValueKey.rdftype
\* and TranslationGroupKey.rdftype (setters), on a key that is being built
rdftype_setter(w, k, value) ==
    IF Failed(w) THEN w
    ELSE CASE K(w, k).cls = "TranslationGroupKey" -> SetF(w, k, "rdftype", 0)
           [] K(w, k).cls = "GroupOfValuesKey" ->
                IF value = 0 /\ \E i \in 1..Len(K(w, k).children) :
                       K(w, K(w, k).children[i]).cls = "GroupOfPropertiesKey"
                THEN Raise(w, "MissingParameter")
                ELSE SetF(w, k, "rdftype", value)
           [] K(w, k).cls = "GroupOfPropertiesKey" ->
                IF InGroupOfValues(w, k) THEN w
                ELSE IF value = 0 THEN Raise(w, "MissingParameter")
                ELSE SetF(w, k, "rdftype", value)
           [] OTHER ->
                IF InGroupOfValues(w, k) THEN w
                ELSE SetF(w, k, "rdftype", value)

\* GroupOfValuesKey.predicate (setter)
group_predicate_setter(w, k, value) ==
    IF Failed(w) THEN w
    ELSE IF value = 0 THEN Raise(w, "MissingParameter")
    ELSE SetF(w, k, "predicate", value)

(***************************************************************************)
(* ChildrenList.                                                           *)
(***************************************************************************)
ChildrenList_append(w, g, value) ==
    Then(SetF(w, g, "children", Append(K(w, g).children, value)), LAMBDA w1 :
    IF Bool(w, value) /\ ~K(w, value).unborn
    THEN Then(compute_single_children(compute_rows(w1, g), g), LAMBDA w2 :
         IF K(w, g).cls = "TranslationGroupKey" /\ K(w, value).cls = "ValueKey"
         THEN language_out(w2, g, value_language(w2, value))
         ELSE w2)
    ELSE w1)

\* ChildrenList.remove without its last statement: the language of the
\* removed value does not go back to the pool
ChildrenList_remove_keeping_language(w, g, value) ==
    IF Failed(w) THEN w
    ELSE IF ~InSeq(value, K(w, g).children) THEN Raise(w, "ValueError")
    ELSE Then(SetF(w, g, "children", RemoveFirst(K(w, g).children, value)),
              LAMBDA w1 :
         IF Bool(w1, value)
         THEN compute_single_children(
                  compute_rows(w1, K(w, value).parent), K(w, value).parent)
         ELSE w1)

ChildrenList_remove(w, g, value) ==
    IF Failed(w) THEN w
    ELSE IF ~InSeq(value, K(w, g).children) THEN Raise(w, "ValueError")
    ELSE Then(SetF(w, g, "children", RemoveFirst(K(w, g).children, value)),
              LAMBDA w1 :
         Then(IF Bool(w1, value)
              THEN compute_single_children(
                       compute_rows(w1, K(w, value).parent), K(w, value).parent)
              ELSE w1, LAMBDA w2 :
         IF K(w, K(w, value).parent).cls = "TranslationGroupKey"
            /\ K(w, value).cls = "ValueKey"
         THEN language_in(w2, K(w, value).parent, value_language(w2, value))
         ELSE w2))

(***************************************************************************)
(* WidgetKey.parent (setter), with _validate_parent and _register of each  *)
(* class.                                                                  *)
(***************************************************************************)
validate_parent(w, k, parent) ==
    CASE K(w, k).cls = "TabKey" ->
            IsA(w, parent, {"GroupOfPropertiesKey", "RootKey"})
      [] K(w, k).cls = "GroupOfPropertiesKey" ->
            IsA(w, parent, GroupClasses \ {"TranslationGroupKey"})
      [] K(w, k).cls \in GroupOfValuesClasses ->
            IsA(w, parent, {"GroupOfPropertiesKey", "TabKey", "RootKey"})
      [] K(w, k).cls = "PlusButtonKey" -> IsA(w, parent, {"GroupOfValuesKey"})
      [] K(w, k).cls = "TranslationButtonKey" ->
            IsA(w, parent, {"TranslationGroupKey"})
      [] OTHER -> IsA(w, parent, GroupClasses)

\* TabKey._base_attributes leaves out the one of GroupKey: a tab has no
\* attribute children, and reading it raises AttributeError
register(w, k, parent) ==
    IF K(w, k).cls \in {"PlusButtonKey", "TranslationButtonKey"}
    THEN SetF(w, parent, "button", k)
    ELSE IF K(w, parent).cls = "TabKey" THEN Raise(w, "AttributeError")
    ELSE ChildrenList_append(w, parent, k)

\* parent_setter without the test of _is_unborn
parent_setter_reassignable(w, k, value) ==
    IF Failed(w) THEN w
    ELSE IF value = 0 THEN Raise(w, "MissingParameter")
    ELSE IF ~validate_parent(w, k, value) THEN Raise(w, "ForbiddenOperation")
    ELSE register(SetF(w, k, "parent", value), k, value)

parent_setter(w, k, value) ==
    IF Failed(w) THEN w
    ELSE IF ~K(w, k).unborn THEN Raise(w, "ForbiddenOperation")
    ELSE IF value = 0 THEN Raise(w, "MissingParameter")
    ELSE IF K(w, k).cls = "GroupOfPropertiesKey"
            /\ IsA(w, value, GroupOfValuesClasses) /\ rdftype(w, value) = 0
         THEN Raise(w, "IntegrityBreach")
    ELSE IF ~validate_parent(w, k, value) THEN Raise(w, "ForbiddenOperation")
    ELSE LET w1 == IF K(w, value).ghost THEN SetF(w, k, "ghost", TRUE) ELSE w
             w2 == IF K(w, value).hidden_m THEN SetF(w1, k, "hidden_m", TRUE)
                   ELSE w1
         IN  register(SetF(w2, k, "parent", value), k, value)

(***************************************************************************)
(* Construction of a key: __new__ and WidgetKey.__init__ with the          *)
(* _computed_attributes of each class.  kw is the record of the keyword    *)
(* arguments; KW gives the value kwargs.get finds for an absent argument.  *)
(***************************************************************************)
KW ==
    [parent |-> 0, is_ghost |-> FALSE, order_idx |-> 0, predicate |-> 0,
     label |-> PyNone, description |-> PyNone, m_twin |-> 0,
     is_hidden_m |-> FALSE, rdftype |-> 0, xsdtype |-> "None",
     with_minus_buttons |-> TRUE, value |-> 0, value_language |-> "None",
     rowspan |-> 0, independant_label |-> FALSE, sources |-> <<>>,
     value_source |-> 0]

new_class_ghost_parent(w, cls, kw) ==
    CASE cls = "ValueKey" ->
            IF kw.value = 0 /\ (kw.is_ghost \/ ~Bool(w, kw.parent)) THEN ""
            ELSE cls
      [] cls = "TranslationGroupKey" ->
            IF kw.is_ghost THEN "GroupOfValuesKey" ELSE cls
      [] cls = "PlusButtonKey" ->
            IF kw.is_ghost \/ ~Bool(w, kw.parent)
               \/ ~IsA(w, kw.parent, GroupOfValuesClasses) THEN ""
            ELSE cls
      [] cls = "TranslationButtonKey" ->
            IF kw.is_ghost \/ ~Bool(w, kw.parent) THEN ""
            ELSE IF ~IsA(w, kw.parent, {"TranslationGroupKey"})
                 THEN IF ~IsA(w, kw.parent, GroupOfValuesClasses) THEN ""
                      ELSE "PlusButtonKey"
            ELSE cls
      [] OTHER -> cls

\* the class __new__ gives an instance of, "" when it gives None
new_class(w, cls, kw) ==
    CASE cls = "ValueKey" ->
            IF kw.value = 0 /\ (kw.is_ghost \/ ~Bool(w, kw.parent)) THEN ""
            ELSE cls
      [] cls = "TranslationGroupKey" ->
            IF kw.is_ghost \/ ~Bool(w, kw.parent) THEN "GroupOfValuesKey"
            ELSE cls
      [] cls = "PlusButtonKey" ->
            IF kw.is_ghost \/ ~Bool(w, kw.parent)
               \/ ~IsA(w, kw.parent, GroupOfValuesClasses) THEN ""
            ELSE cls
      [] cls = "TranslationButtonKey" ->
            IF kw.is_ghost \/ ~Bool(w, kw.parent) THEN ""
            ELSE IF ~IsA(w, kw.parent, {"TranslationGroupKey"})
                 THEN IF ~IsA(w, kw.parent, GroupOfValuesClasses) THEN ""
                      ELSE "PlusButtonKey"
            ELSE cls
      [] OTHER -> cls

ObjectKey_computed_attributes(w, k, kw) ==
    is_main_twin_setter(
        is_hidden_m_setter(
            description_setter(
                label_setter(
                    predicate_setter(m_twin_setter(w, k, kw.m_twin),
                                     k, kw.predicate),
                    k, kw.label),
                k, kw.description),
            k, kw.is_hidden_m),
        k, "None")

computed_attributes(w, k, kw) ==
    CASE K(w, k).cls = "ValueKey" ->
            Then(xsdtype_setter(
                     rdftype_setter(
                         sources_setter(
                             independant_label_setter(
                                 rowspan_setter(
                                     ObjectKey_computed_attributes(w, k, kw),
                                     k, kw.rowspan),
                                 k, kw.independant_label),
                             k, kw.sources),
                         k, kw.rdftype),
                     k, kw.xsdtype), LAMBDA w5 :
            value_source_setter(
                value_language_setter(
                    IF Failed(w5) THEN w5 ELSE SetF(w5, k, "value", kw.value),
                    k, kw.value_language),
                k, kw.value_source))
      [] K(w, k).cls = "GroupOfPropertiesKey" ->
            rdftype_setter(ObjectKey_computed_attributes(w, k, kw), k, kw.rdftype)
      [] K(w, k).cls \in GroupOfValuesClasses ->
            Then(group_predicate_setter(
                     SetF(w, k, "with_minus_buttons", kw.with_minus_buttons),
                     k, kw.predicate), LAMBDA w2 :
            xsdtype_setter(
                sources_setter(
                    rdftype_setter(
                        IF Failed(w2) THEN w2
                        ELSE SetF(SetF(w2, k, "label", StrOrNone(kw.label)),
                                  k, "description", StrOrNone(kw.description)),
                        k, kw.rdftype),
                    k, kw.sources),
                k, kw.xsdtype))
      [] K(w, k).cls = "TabKey" -> SetF(w, k, "label", StrOrNone(kw.label))
      [] OTHER -> w

WidgetKey_init(w, cls, kw) ==
    LET k == Len(w.keys) + 1 IN
    Then([w EXCEPT !.keys = Append(@, NewKey(cls, kw.is_ghost))], LAMBDA w0 :
    Then(IF cls = "RootKey" THEN w0 ELSE parent_setter(w0, k, kw.parent),
         LAMBDA w1 :
    Then(IF Failed(w1) THEN w1 ELSE computed_attributes(w1, k, kw), LAMBDA w2 :
    Then(order_idx_setter(w2, k, kw.order_idx), LAMBDA w3 :
    Then(IF ~Failed(w3) /\ Bool(w3, k) /\ Bool(w3, K(w3, k).parent)
            /\ ~w3.nocomp
         THEN compute_single_children(compute_rows(w3, K(w3, k).parent),
                                      K(w3, k).parent)
         ELSE w3, LAMBDA w4 :
    IF Failed(w4) THEN [w |-> w4, key |-> 0]
    ELSE [w |-> Record(SetF(w4, k, "unborn", FALSE), "create", k),
          key |-> k])))))

Construct(w, cls, kw) ==
    IF Failed(w) \/ new_class(w, cls, kw) = "" THEN [w |-> w, key |-> 0]
    ELSE WidgetKey_init(w, new_class(w, cls, kw), kw)

(***************************************************************************)
(* kill: WidgetKey, ObjectKey, GroupOfPropertiesKey, PlusButtonKey and     *)
(* RootKey.                                                                *)
(***************************************************************************)
WidgetKey_kill(w, k) ==
    Then(ChildrenList_remove(w, K(w, k).parent, k), LAMBDA w1 :
    IF Failed(w1) THEN w1 ELSE Record(w1, "drop", k))

\* ObjectKey.kill that leaves the twin where it is
ObjectKey_kill_alone(w, k, preserve_twin) == WidgetKey_kill(w, k)

ObjectKey_kill(w, k, preserve_twin) ==
    Then(WidgetKey_kill(w, k), LAMBDA w1 :
    IF Failed(w1) \/ ~HasTwin(w1, k) THEN w1
    ELSE IF ~preserve_twin
         THEN Then(ChildrenList_remove(w1, K(w1, k).parent, K(w, k).m_twin),
                   LAMBDA w2 :
              IF Failed(w2) THEN w2 ELSE Record(w2, "drop", K(w, k).m_twin))
         ELSE m_twin_setter(w1, k, 0))

kill(w, k) ==
    IF Failed(w) THEN w
    ELSE CASE K(w, k).cls \in ObjectClasses -> ObjectKey_kill(w, k, FALSE)
           [] K(w, k).cls \in {"PlusButtonKey", "TranslationButtonKey"} ->
                SetF(w, K(w, k).parent, "button", 0)
           [] K(w, k).cls = "RootKey" -> Record(w, "drop", k)
           [] OTHER -> WidgetKey_kill(w, k)

(***************************************************************************)
(* RootKey.clean and GroupKey._clean.                                      *)
(***************************************************************************)
\* GroupOfPropertiesKey.kill takes no argument: a call with preserve_twin
\* raises TypeError
GroupOfPropertiesKey_kill(w, k, preserve_twin) ==
    IF Failed(w) THEN w
    ELSE IF preserve_twin THEN Raise(w, "TypeError")
    ELSE ObjectKey_kill(w, k, FALSE)

RECURSIVE GroupKey_clean(_, _)

\* for child in self.children, the list being read again at each turn
RECURSIVE CleanLoop(_, _, _)
CleanLoop(w, g, i) ==
    IF Failed(w) \/ i > Len(K(w, g).children) THEN w
    ELSE CleanLoop(IF K(w, K(w, g).children[i]).cls \in GroupClasses
                   THEN GroupKey_clean(w, K(w, g).children[i])
                   ELSE w,
                   g, i + 1)

GroupKey_clean(w, g) ==
    IF Failed(w) THEN w
    ELSE IF K(w, g).cls = "TabKey" THEN Raise(w, "AttributeError")
    ELSE IF K(w, g).children = <<>>
         THEN IF K(w, g).cls = "GroupOfPropertiesKey"
              THEN GroupOfPropertiesKey_kill(w, g, TRUE)
              ELSE kill(w, g)
         ELSE CleanLoop(w, g, 1)

(***************************************************************************)
(* copy and _copy of each class.                                           *)
(***************************************************************************)
\* the dictionary _copy builds from attr_to_copy, each value read through
\* the getter of the attribute
copy_kwargs(w, k, parent, empty) ==
    LET kept == IF empty THEN KW
                ELSE [KW EXCEPT !.value = K(w, k).value,
                                !.value_language = value_language(w, k),
                                !.value_source = K(w, k).value_source]
        own == CASE K(w, k).cls = "ValueKey" ->
                      [kept EXCEPT !.predicate = predicate(w, k),
                                   !.label = label(w, k),
                                   !.description = description(w, k),
                                   !.sources = sources(w, k),
                                   !.rdftype = rdftype(w, k),
                                   !.xsdtype = xsdtype(w, k),
                                   !.rowspan = rowspan(w, k),
                                   !.independant_label = independant_label(w, k)]
                 [] K(w, k).cls = "GroupOfPropertiesKey" ->
                      [KW EXCEPT !.predicate = predicate(w, k),
                                 !.label = label(w, k),
                                 !.description = description(w, k),
                                 !.rdftype = rdftype(w, k)]
                 [] OTHER -> KW
    IN  [own EXCEPT !.order_idx = K(w, k).order_idx,
                    !.parent = IF Bool(w, parent) THEN parent
                               ELSE K(w, k).parent]

\* reading GroupOfValuesKey.description evaluates self._value, an attribute
\* no group of values has
WidgetKey__copy(w, k, parent, empty) ==
    IF Failed(w) THEN [w |-> w, key |-> 0]
    ELSE IF K(w, k).cls \in GroupOfValuesClasses
         THEN [w |-> Raise(w, "AttributeError"), key |-> 0]
    ELSE Construct(w, K(w, k).cls, copy_kwargs(w, k, parent, empty))

WidgetKey_copy(w, k, parent, empty) ==
    IF Failed(w) THEN [w |-> w, key |-> 0]
    ELSE IF ~Bool(w, k) THEN [w |-> Raise(w, "ForbiddenOperation"), key |-> 0]
    ELSE WidgetKey__copy(w, k, parent, empty)

\* the test that ends the loop of GroupKey.copy
copy_break(w, self, child, empty) ==
    empty /\ IsA(w, child, GroupOfValuesClasses)

RECURSIVE copy(_, _, _, _)
RECURSIVE CopyLoop(_, _, _, _, _, _)
CopyLoop(w, self, s, i, key, empty) ==
    IF i > Len(s) \/ Failed(w) THEN w
    ELSE Then(copy(w, s[i], key, empty), LAMBDA r :
         IF copy_break(r.w, self, s[i], empty) THEN r.w
         ELSE CopyLoop(r.w, self, s, i + 1, key, empty))

GroupKey_copy(w, k, parent, empty) ==
    Then(WidgetKey_copy(w, k, parent, empty), LAMBDA r :
    IF Failed(r.w) THEN r
    ELSE IF K(w, k).cls = "TabKey"
    THEN [w |-> Raise(r.w, "AttributeError"), key |-> 0]
    ELSE [w |-> CopyLoop(r.w, k, real_children(r.w, k), 1, r.key, empty),
          key |-> r.key])

GroupOfPropertiesKey_copy(w, k, parent, empty) ==
    Then(GroupKey_copy(w, k, parent, empty), LAMBDA r :
    IF Failed(r.w) \/ ~HasTwin(r.w, k) THEN r
    ELSE Then(WidgetKey__copy(r.w, K(w, k).m_twin, K(r.w, r.key).parent,
                              empty), LAMBDA t :
         Then(m_twin_setter(t.w, r.key, t.key), LAMBDA w1 :
         [w |-> is_hidden_m_setter(w1, r.key, K(w1, k).hidden_m),
          key |-> r.key])))

copy(w, k, parent, empty) ==
    IF Failed(w) THEN [w |-> w, key |-> 0]
    ELSE CASE K(w, k).cls = "ValueKey" ->
                IF HasTwin(w, k)
                THEN Then(GroupOfPropertiesKey_copy(w, K(w, k).m_twin,
                                                    parent, empty), LAMBDA r :
                     [w |-> r.w,
                      key |-> IF Failed(r.w) THEN 0
                              ELSE K(r.w, r.key).m_twin])
                ELSE WidgetKey_copy(w, k, parent, empty)
           [] K(w, k).cls = "GroupOfPropertiesKey" ->
                GroupOfPropertiesKey_copy(w, k, parent, empty)
           [] K(w, k).cls \in GroupOfValuesClasses ->
                Then(GroupKey_copy(w, k, parent, empty), LAMBDA r :
                IF Failed(r.w) \/ ~Bool(r.w, K(r.w, k).button) THEN r
                ELSE [w |-> WidgetKey_copy(r.w, K(r.w, k).button, r.key,
                                           empty).w,
                      key |-> r.key])
           [] K(w, k).cls = "TabKey" -> GroupKey_copy(w, k, parent, empty)
           [] OTHER -> WidgetKey_copy(w, k, parent, empty)

(***************************************************************************)
(* The operations a user interface triggers.  Each gives the world after   *)
(* the call and the actions book the call returns.                         *)
(***************************************************************************)
clear_actionsbook(w) == [w EXCEPT !.book = ActionsBook]

unload_actionsbook(w) ==
    IF Failed(w) THEN [w |-> w, batch |-> ActionsBook]
    ELSE [w |-> clear_actionsbook(w), batch |-> w.book]

\* RootKey.clean
clean(w) == unload_actionsbook(GroupKey_clean(clear_actionsbook(w), 1))

drop(w, k) ==
    IF ~has_minus_button(w, k) THEN [w |-> w, batch |-> ActionsBook]
    ELSE unload_actionsbook(kill(clear_actionsbook(w), k))

\* switch_twin without its test of is_hidden
switch_twin_unguarded(w, k) ==
    unload_actionsbook(is_hidden_m_setter(clear_actionsbook(w), k, TRUE))

switch_twin(w, k) ==
    IF is_hidden(w, k) THEN [w |-> w, batch |-> ActionsBook]
    ELSE unload_actionsbook(is_hidden_m_setter(clear_actionsbook(w), k, TRUE))

change_language(w, k, lang) ==
    IF is_hidden(w, k) THEN [w |-> w, batch |-> ActionsBook]
    ELSE unload_actionsbook(
             value_language_setter(clear_actionsbook(w), k, lang))

change_source(w, k, value_source) ==
    IF is_hidden(w, k) THEN [w |-> w, batch |-> ActionsBook]
    ELSE unload_actionsbook(
             value_source_setter(clear_actionsbook(w), k, value_source))

\* add without its test of is_hidden
add_unguarded(w, k) ==
    unload_actionsbook(
        IF real_children(w, K(w, k).parent) = <<>>
        THEN clear_actionsbook(w)
        ELSE copy(clear_actionsbook(w),
                  real_children(w, K(w, k).parent)[1],
                  K(w, k).parent, TRUE).w)

\* PlusButtonKey.add
add(w, k) ==
    IF is_hidden(w, k) THEN [w |-> w, batch |-> ActionsBook]
    ELSE unload_actionsbook(
             IF real_children(w, K(w, k).parent) = <<>>
             THEN clear_actionsbook(w)
             ELSE copy(clear_actionsbook(w),
                       real_children(w, K(w, k).parent)[1],
                       K(w, k).parent, TRUE).w)

(***************************************************************************)
(* The state machine.  ret describes the last call: its name, the key it   *)
(* was applied to (the intended parent, for a construction), the exception *)
(* it raised, the actions book it returned and the key it returned.        *)
(***************************************************************************)
World == [keys |-> keys, book |-> book, nocomp |-> no_computation,
          exc |-> "none", passes |-> <<>>]

EmptyWorld == [keys |-> <<>>, book |-> ActionsBook, nocomp |-> FALSE,
               exc |-> "none", passes |-> <<>>]

Init ==
    /\ keys = WidgetKey_init(EmptyWorld, "RootKey", KW).w.keys
    /\ book = ActionsBook
    /\ no_computation = FALSE
    /\ ret = [op |-> "RootKey", key |-> 0, exc |-> "none",
              batch |-> ActionsBook, res |-> 1]

\* the keys of ks below the root: the root, the children and the buttons
RECURSIVE AttachedIn(_, _)
AttachedIn(ks, k) ==
    \/ k = 1
    \/ /\ ks[k].parent # 0
       /\ \/ InSeq(k, ks[ks[k].parent].children)
          \/ ks[ks[k].parent].button = k
       /\ AttachedIn(ks, ks[k].parent)

\* a killed key that no key of the tree refers to is freed: nothing reads
\* it any more
Freed(ks, k) ==
    /\ ~AttachedIn(ks, k)
    /\ \A j \in 1..Len(ks) :
          AttachedIn(ks, j) => ks[j].m_twin # k /\ ks[j].parent # k

Collect(ks) ==
    [k \in 1..Len(ks) |-> IF Freed(ks, k) THEN NewKey("", TRUE) ELSE ks[k]]

Commit(r, op, k, res) ==
    /\ keys' = Collect(r.w.keys)
    /\ book' = r.w.book
    /\ UNCHANGED no_computation
    /\ ret' = [op |-> op, key |-> k, exc |-> r.w.exc, batch |-> r.batch,
               res |-> res]

Attached(k) == AttachedIn(keys, k)

Tree == {k \in 1..Len(keys) : Attached(k)}

Groups == {k \in Tree : keys[k].cls \in GroupClasses}

\* a caller empties the actions book, builds a key of class cls and takes
\* the book; __new__ giving None is no step
Built(r, cls, kw) ==
    /\ r.key # 0 \/ Failed(r.w)
    /\ Commit(unload_actionsbook(r.w), cls, kw.parent, r.key)

New(cls, kw, bound) ==
    /\ ret.exc = "none"
    /\ Len(keys) < bound
    /\ Built(Construct(clear_actionsbook(World), cls, kw), cls, kw)

\* the keys a new key of class cls under p may take as twin
TwinCandidates(cls, p) ==
    {0} \cup {t \in Tree : /\ keys[t].parent = p
                           /\ keys[t].cls = twin_class(cls)
                           /\ keys[t].m_twin = 0
                           /\ ~keys[t].ghost}

NewValueKey(bound) ==
    \E p \in Groups : \E t \in TwinCandidates("ValueKey", p) :
    \E h \in BOOLEAN :
        New("ValueKey", [KW EXCEPT !.parent = p, !.predicate = 1,
                                   !.m_twin = t, !.is_hidden_m = h], bound)

NewGroupOfPropertiesKey(bound) ==
    \E p \in Groups : \E t \in TwinCandidates("GroupOfPropertiesKey", p) :
    \E h \in BOOLEAN :
        /\ keys[p].cls # "TranslationGroupKey"
        /\ New("GroupOfPropertiesKey",
               [KW EXCEPT !.parent = p, !.predicate = 1, !.rdftype = 1,
                          !.m_twin = t, !.is_hidden_m = h], bound)

NewGroupOfValuesKey(bound) ==
    \E p \in Groups :
        /\ keys[p].cls \notin GroupOfValuesClasses
        /\ New("GroupOfValuesKey",
               [KW EXCEPT !.parent = p, !.predicate = 1, !.rdftype = 1], bound)

NewPlusButtonKey(bound) ==
    \E p \in Groups :
        /\ keys[p].cls = "GroupOfValuesKey"
        /\ keys[p].button = 0
        /\ New("PlusButtonKey", [KW EXCEPT !.parent = p], bound)

\* the calls of the user interface are made on a key taken among a set of
\* keys of the tree
SwitchTwin(among) ==
    \E k \in among :
        /\ ret.exc = "none"
        /\ keys[k].cls \in ObjectClasses
        /\ keys[k].m_twin # 0
        /\ Commit(switch_twin(World, k), "switch_twin", k, 0)

\* update(is_hidden_m=v)
WriteHiddenM ==
    \E k \in Tree : \E v \in BOOLEAN :
        /\ ret.exc = "none"
        /\ keys[k].cls \in ObjectClasses
        /\ Commit(unload_actionsbook(
                      is_hidden_m_setter(clear_actionsbook(World), k, v)),
                  "is_hidden_m", k, 0)

(***************************************************************************)
(* Twin pairs and masked branches.                                         *)
(***************************************************************************)
NextTwin ==
    \/ NewValueKey(MaxTwinKeys)
    \/ NewGroupOfPropertiesKey(MaxTwinKeys)
    \/ NewGroupOfValuesKey(MaxTwinKeys)
    \/ NewPlusButtonKey(MaxTwinKeys)
    \/ SwitchTwin(Tree)
    \/ WriteHiddenM

SpecTwin == Init /\ [][NextTwin]_vars

TwinPairs ==
    {pr \in Tree \X Tree : /\ keys[pr[1]].m_twin = pr[2]
                           /\ keys[pr[2]].m_twin = pr[1]}

\* C1: of the two twins of a pair whose parent is not masked, exactly one
\* has is_hidden_m false, at any depth and after any hide and show cascade.
C1_TwinsExclusive ==
    \A pr \in TwinPairs :
        ~keys[keys[pr[1]].parent].hidden_m =>
            (keys[pr[1]].hidden_m # keys[pr[2]].hidden_m)

\* C4: a non-ghost child or button of a masked key is masked.
C4_MaskedDownToLeaves ==
    \A k \in Tree :
        (k # 1 /\ ~keys[k].ghost /\ keys[keys[k].parent].hidden_m) =>
            keys[k].hidden_m

(***************************************************************************)
(* Translation groups and their pool of languages.                         *)
(***************************************************************************)
MaxLangKeys == 5

\* the caller's recovery from an exception: the build is discarded
Reset ==
    /\ ret.exc # "none"
    /\ keys' = WidgetKey_init(EmptyWorld, "RootKey", KW).w.keys
    /\ book' = ActionsBook
    /\ UNCHANGED no_computation
    /\ ret' = [op |-> "RootKey", key |-> 0, exc |-> "none",
               batch |-> ActionsBook, res |-> 1]

NewTranslationGroupKey(bound) ==
    \E p \in Groups :
        /\ keys[p].cls \notin GroupOfValuesClasses
        /\ New("TranslationGroupKey", [KW EXCEPT !.parent = p, !.predicate = 1],
               bound)

NewTranslationButtonKey(bound) ==
    \E p \in Groups :
        /\ keys[p].cls = "TranslationGroupKey"
        /\ keys[p].button = 0
        /\ New("TranslationButtonKey", [KW EXCEPT !.parent = p], bound)

\* a value in a translation group, with or without a language, in the
\* allowed languages or not, materialized or not (a ghost has a value:
\* __new__ gives nothing for a ghost without one)
NewTranslation(bound) ==
    \E p \in Groups : \E l \in {"None", "fr", "en", "de"} :
    \E ghost \in BOOLEAN :
        /\ keys[p].cls = "TranslationGroupKey"
        /\ New("ValueKey", [KW EXCEPT !.parent = p,
                                      !.value = IF ghost THEN 1 ELSE 0,
                                      !.value_language = l,
                                      !.is_ghost = ghost], bound)

Add(bound, among) ==
    \E b \in among :
        /\ ret.exc = "none"
        /\ keys[b].cls \in {"PlusButtonKey", "TranslationButtonKey"}
        /\ Len(keys) < bound \/ is_hidden(World, b)
        /\ Commit(add(World, b), "add", b, 0)

Drop ==
    \E k \in Tree :
        /\ ret.exc = "none"
        /\ keys[k].cls \in ObjectClasses
        /\ Commit(drop(World, k), "drop", k, 0)

ChangeLanguage(among) ==
    \E k \in among : \E l \in {"fr", "en"} :
        /\ ret.exc = "none"
        /\ keys[k].cls = "ValueKey"
        /\ Commit(change_language(World, k, l), "change_language", k, 0)

NextLang ==
    \/ NewTranslationGroupKey(MaxLangKeys)
    \/ NewTranslationButtonKey(MaxLangKeys)
    \/ NewTranslation(MaxLangKeys)
    \/ Add(MaxLangKeys, Tree)
    \/ Drop
    \/ ChangeLanguage(Tree)
    \/ Reset

SpecLang == Init /\ [][NextLang]_vars

TranslationGroups == {g \in Tree : keys[g].cls = "TranslationGroupKey"}

\* the languages the value keys among the children cs of a group hold
Held(cs) ==
    {value_language(World, c) : c \in {d \in cs : keys[d].cls = "ValueKey"}}
        \ {"None"}

Children(g) == {keys[g].children[i] : i \in 1..Len(keys[g].children)}

Pool(g) ==
    {keys[g].available_languages[i] :
        i \in 1..Len(keys[g].available_languages)}

Allowed == {langlist[i] : i \in 1..Len(langlist)}

PoolCountsAllChildren ==
    \A g \in TranslationGroups : Pool(g) = Allowed \ Held(Children(g))

DistinctLanguages ==
    \A g \in TranslationGroups :
        \A i, j \in 1..Len(keys[g].children) :
            (/\ i # j
             /\ keys[keys[g].children[i]].cls = "ValueKey"
             /\ keys[keys[g].children[j]].cls = "ValueKey") =>
                value_language(World, keys[g].children[i])
                    # value_language(World, keys[g].children[j])

MaxBuildKeys == 4

KeyClasses == {"ValueKey", "GroupOfPropertiesKey", "GroupOfValuesKey",
               "TranslationGroupKey", "TabKey", "PlusButtonKey",
               "TranslationButtonKey"}

\* a key of any class under any key of the tree, with or without a
\* predicate, an rdftype and a twin
Build(bound) ==
    \E cls \in KeyClasses : \E p \in Tree : \E pred, type \in {0, 1} :
    \E t \in {0} \cup {k \in Tree : keys[k].cls \in ObjectClasses} :
        New(cls, [KW EXCEPT !.parent = p, !.predicate = pred,
                            !.rdftype = type, !.m_twin = t], bound)

NextBuild ==
    \/ Build(MaxBuildKeys)
    \/ Reset

SpecBuild == Init /\ [][NextBuild]_vars

\* C3: a construction that raises leaves the children, the button and the
\* pool of languages of the intended parent as they were.
C3_FailedKeyNotAttached ==
    [][(ret'.exc # "none" /\ ret'.op \in KeyClasses) =>
          /\ keys'[ret'.key].children = keys[ret'.key].children
          /\ keys'[ret'.key].button = keys[ret'.key].button
          /\ keys'[ret'.key].available_languages
                = keys[ret'.key].available_languages]_vars

(***************************************************************************)
(* Copies of branches.                                                     *)
(***************************************************************************)
MaxCopyKeys == 5

\* a value key that holds a value
NewValue(bound) ==
    \E p \in Groups :
        New("ValueKey", [KW EXCEPT !.parent = p, !.predicate = 1, !.value = 1],
            bound)

Copied(r, g, empty) ==
    Commit(unload_actionsbook(r.w), IF empty THEN "copy_empty" ELSE "copy",
           g, r.key)

\* g.copy(empty=empty), the copy taking the parent of g
Copy(bound) ==
    \E g \in Groups : \E empty \in BOOLEAN :
        /\ ret.exc = "none"
        /\ Len(keys) < bound
        /\ g # 1
        /\ Copied(copy(clear_actionsbook(World), g, 0, empty), g, empty)

NextCopy ==
    \/ NewValueKey(MaxCopyKeys)
    \/ NewValue(MaxCopyKeys)
    \/ NewGroupOfPropertiesKey(MaxCopyKeys)
    \/ NewGroupOfValuesKey(MaxCopyKeys)
    \/ NewPlusButtonKey(MaxCopyKeys)
    \/ Copy(MaxCopyKeys)
    \/ Reset

SpecCopy == Init /\ [][NextCopy]_vars

RECURSIVE Below(_, _)
Below(k, g) ==
    k # 1 /\ (keys[k].parent = g \/ Below(keys[k].parent, g))

\* the non-ghost value keys of the branch of g
Leaves(g) ==
    {k \in Tree : keys[k].cls = "ValueKey" /\ ~keys[k].ghost /\ Below(k, g)}

\* what a leaf shows; the description is compared as text
LeafContent(k) ==
    <<predicate(World, k), label(World, k),
      StrOrNone(description(World, k)), keys[k].value>>

SameLeaves(g, h) ==
    \A k \in Leaves(g) \cup Leaves(h) :
        Cardinality({j \in Leaves(g) : LeafContent(j) = LeafContent(k)})
            = Cardinality({j \in Leaves(h) : LeafContent(j) = LeafContent(k)})

\* C5: copy(empty=False) of a non-ghost group gives a branch whose non-ghost
\* value leaves match those of the group one for one, with the same
\* predicate, label, description and value.
C5_CopyKeepsLeaves ==
    ret.op = "copy" =>
        ret.exc = "none" /\ ret.res # 0 /\ SameLeaves(ret.key, ret.res)

\* C6: copy(empty=True) of a group of values with two non-ghost children or
\* more gives a group with one child only, a copy of the first child with
\* no value, no language and no source.
C6_EmptyCopyHasFirstChildOnly ==
    (/\ ret.op = "copy_empty"
     /\ keys[ret.key].cls \in GroupOfValuesClasses
     /\ Len(real_children(World, ret.key)) >= 2) =>
        /\ ret.exc = "none" /\ ret.res # 0
        /\ Len(keys[ret.res].children) = 1
        /\ keys[keys[ret.res].children[1]].value = 0
        /\ keys[keys[ret.res].children[1]].value_source = 0

(***************************************************************************)
(* The operations of the user interface on keys that are not visible.      *)
(***************************************************************************)
MaxGuiKeys == 5

\* a value key with sources of controlled vocabulary, with or without a
\* twin, masked or not
NewSourcedValueKey(bound) ==
    \E p \in Groups : \E t \in TwinCandidates("ValueKey", p) :
    \E h \in BOOLEAN : \E src \in {0, 1} :
        New("ValueKey", [KW EXCEPT !.parent = p, !.predicate = 1,
                                   !.m_twin = t, !.is_hidden_m = h,
                                   !.sources = <<1, 2>>,
                                   !.value_source = src], bound)

ChangeSource(among) ==
    \E k \in among : \E src \in {1, 2} :
        /\ ret.exc = "none"
        /\ keys[k].cls = "ValueKey"
        /\ Commit(change_source(World, k, src), "change_source", k, 0)

\* the keys of the tree that are not visible
Hidden == {k \in Tree : is_hidden(World, k)}

NextGui ==
    \/ NewSourcedValueKey(MaxGuiKeys)
    \/ NewGroupOfPropertiesKey(MaxGuiKeys)
    \/ NewGroupOfValuesKey(MaxGuiKeys)
    \/ NewPlusButtonKey(MaxGuiKeys)
    \/ NewTranslationGroupKey(MaxGuiKeys)
    \/ NewTranslationButtonKey(MaxGuiKeys)
    \/ NewTranslation(MaxGuiKeys)
    \/ Add(MaxGuiKeys, Hidden)
    \/ SwitchTwin(Hidden)
    \/ ChangeLanguage(Hidden)
    \/ ChangeSource(Hidden)
    \/ Drop
    \/ Reset

SpecGui == Init /\ [][NextGui]_vars

\* the step is a call that returned an empty actions book, raised nothing
\* and changed no key
NoEffect ==
    ret'.batch = ActionsBook /\ ret'.exc = "none" /\ keys' = keys

\* C7: add, switch_twin, change_language, change_source and drop on a key
\* whose is_hidden is true return an empty actions book, raise nothing and
\* leave the tree as it was.
C7_HiddenKeyUntouched ==
    [][(/\ ret'.op \in {"add", "switch_twin", "change_language",
                        "change_source", "drop"}
        /\ is_hidden(World, ret'.key)) => NoEffect]_vars

\* C7 (amended): add, switch_twin, change_language and change_source on a
\* key whose is_hidden is true, and drop on a key that has no minus button,
\* return an empty actions book, raise nothing and leave the tree as it was.
C7_NoEffectWithoutWidget ==
    [][(\/ /\ ret'.op \in {"add", "switch_twin", "change_language",
                           "change_source"}
           /\ is_hidden(World, ret'.key)
        \/ /\ ret'.op = "drop"
           /\ ~has_minus_button(World, ret'.key)) => NoEffect]_vars

C7_Witness ==
    /\ ret.op = "switch_twin" /\ ret.exc = "none" /\ ret.batch = ActionsBook
    /\ keys[ret.key].hidden_m /\ ~keys[ret.key].ghost
    /\ HasTwin(World, ret.key)
    /\ ~keys[keys[ret.key].parent].hidden_m

(***************************************************************************)
(* Minus buttons in the groups of values.                                  *)
(***************************************************************************)
MaxMinusKeys == 5

\* g.compute_single_children(), called on its own
ComputeSingleChildren ==
    \E g \in Groups :
        /\ ret.exc = "none"
        /\ keys[g].cls \in GroupOfValuesClasses
        /\ Commit(unload_actionsbook(
                      compute_single_children(clear_actionsbook(World), g)),
                  "compute_single_children", g, 0)

NextMinus ==
    \/ NewValueKey(MaxMinusKeys)
    \/ NewGroupOfPropertiesKey(MaxMinusKeys)
    \/ NewGroupOfValuesKey(MaxMinusKeys)
    \/ NewPlusButtonKey(MaxMinusKeys)
    \/ Add(MaxMinusKeys, Tree)
    \/ Drop
    \/ ComputeSingleChildren

SpecMinus == Init /\ [][NextMinus]_vars

\* the flag of key c before the step, a key the step creates starting with
\* the flag of __init__
SingleBefore(c) == c <= Len(keys) /\ ~keys[c].unborn /\ keys[c].single

\* C8: in a non-ghost group of values, with computation enabled, add and
\* drop record show_minus_button exactly when the number of true children
\* reaches 2 and hide_minus_button exactly when it falls back below 2, for
\* the children whose single-child flag changes and only for them, once
\* each; a recomputation at an unchanged count records neither.
C8_MinusButtonsAtThreshold ==
    [][(/\ ret'.op \in {"add", "drop", "compute_single_children"}
        /\ ret'.exc = "none") =>
       /\ \A g \in Tree :
            (/\ keys[g].cls \in GroupOfValuesClasses /\ ~keys[g].ghost
             /\ AttachedIn(keys', g)) =>
            LET n == true_children_count(World, g)
                m == true_children_count(World', g)
                cs == real_children(World', g)
                shown == {i \in 1..Len(cs) :
                             InSeq(cs[i], ret'.batch.show_minus_button)}
                masked == {i \in 1..Len(cs) :
                              InSeq(cs[i], ret'.batch.hide_minus_button)}
            IN  /\ \A i \in 1..Len(cs) :
                     /\ i \in shown <=>
                            (SingleBefore(cs[i]) /\ ~keys'[cs[i]].single)
                     /\ i \in masked <=>
                            (~SingleBefore(cs[i]) /\ keys'[cs[i]].single)
                /\ shown # {} <=> (n = 1 /\ m = 2)
                /\ masked # {} <=> (n = 2 /\ m = 1)
                /\ n = m => shown = {} /\ masked = {}
       /\ \A i, j \in 1..Len(ret'.batch.show_minus_button) :
            ret'.batch.show_minus_button[i] = ret'.batch.show_minus_button[j]
                => i = j
       /\ \A i, j \in 1..Len(ret'.batch.hide_minus_button) :
            ret'.batch.hide_minus_button[i] = ret'.batch.hide_minus_button[j]
                => i = j
       /\ ret'.op = "compute_single_children" =>
            /\ ret'.batch.show_minus_button = <<>>
            /\ ret'.batch.hide_minus_button = <<>>]_vars

\* a drop has just brought a group back to one true child
C8_Witness ==
    /\ ret.op = "drop" /\ ret.exc = "none"
    /\ ret.batch.hide_minus_button # <<>>
    /\ \E g \in Tree : /\ keys[g].cls = "GroupOfValuesKey"
                        /\ true_children_count(World, g) = 1
                        /\ keys[g].button # 0

(***************************************************************************)
(* The rows of the children of a group.                                    *)
(***************************************************************************)
MaxRowsKeys == 4

\* WidgetKey.no_computation = True or False, by the caller
SetNoComputation ==
    /\ ret.exc = "none"
    /\ no_computation' = ~no_computation
    /\ ret' = [op |-> "no_computation", key |-> 0, exc |-> "none",
               batch |-> ActionsBook, res |-> 0]
    /\ UNCHANGED <<keys, book>>

\* a value key with an index of order, with or without a label of its own
NewOrderedValueKey(bound) ==
    \E p \in Groups : \E i \in {1, 2} : \E l \in BOOLEAN :
        New("ValueKey", [KW EXCEPT !.parent = p, !.predicate = 1,
                                   !.order_idx = i, !.label = PyStr(1),
                                   !.independant_label = l], bound)

\* g.compute_rows(), called on its own; res tells the second of two calls
\* in succession on the same group
ComputeRows ==
    \E g \in Groups :
        /\ ret.exc = "none"
        /\ Commit(unload_actionsbook(compute_rows(clear_actionsbook(World), g)),
                  "compute_rows", g,
                  IF ret.op = "compute_rows" /\ ret.key = g THEN 2 ELSE 1)

NextRows ==
    \/ SetNoComputation
    \/ NewOrderedValueKey(MaxRowsKeys)
    \/ NewGroupOfPropertiesKey(MaxRowsKeys)
    \/ NewGroupOfValuesKey(MaxRowsKeys)
    \/ NewPlusButtonKey(MaxRowsKeys)
    \/ ComputeRows

SpecRows == Init /\ [][NextRows]_vars

\* C9: the second of two calls of compute_rows in succession on a group
\* records no move and leaves the rows of the children, the row of the
\* button and the order of the children as they were.
C9_ComputeRowsIdempotent ==
    [][(ret'.op = "compute_rows" /\ ret'.res = 2) =>
       /\ ret'.exc = "none"
       /\ ret'.batch.move = <<>>
       /\ keys' = keys]_vars

\* the second call, with computation enabled, on a group whose children
\* are not in the order of their creation
C9_Witness ==
    /\ ret.op = "compute_rows" /\ ret.res = 2 /\ ~no_computation
    /\ \E i, j \in 1..Len(keys[ret.key].children) :
          /\ i < j
          /\ keys[ret.key].children[i] > keys[ret.key].children[j]
          /\ keys[keys[ret.key].children[j]].row > 0

(***************************************************************************)
(* The attributes the two twins of a pair share.                           *)
(***************************************************************************)
MaxSharedKeys == 3

\* an object key with or without a label and a description, with or without
\* a twin
NewLabelledKey(bound) ==
    \E cls \in ObjectClasses : \E p \in Groups :
    \E t \in TwinCandidates(cls, p) :
    \E l \in {PyNone, PyStr(1)} : \E d \in {PyNone, PyStr(2)} :
        New(cls, [KW EXCEPT !.parent = p, !.predicate = 1, !.rdftype = 1,
                            !.m_twin = t, !.label = l, !.description = d],
            bound)

\* update(label=v), update(description=v), update(predicate=v) and
\* update(order_idx=v); res is 1 when v is not None
UpdateShared ==
    \E k \in Tree :
        /\ ret.exc = "none"
        /\ keys[k].cls \in ObjectClasses
        /\ \/ \E v \in {PyNone, PyStr(3)} :
                 Commit(unload_actionsbook(
                            label_setter(clear_actionsbook(World), k, v)),
                        "label", k, IF v = PyNone THEN 0 ELSE 1)
           \/ \E v \in {PyNone, PyStr(4)} :
                 Commit(unload_actionsbook(
                            description_setter(clear_actionsbook(World), k, v)),
                        "description", k, IF v = PyNone THEN 0 ELSE 1)
           \/ Commit(unload_actionsbook(
                         predicate_setter(clear_actionsbook(World), k, 2)),
                     "predicate", k, 1)
           \/ Commit(unload_actionsbook(
                         order_idx_setter(clear_actionsbook(World), k, 1)),
                     "order_idx", k, 1)

NextShared ==
    \/ NewLabelledKey(MaxSharedKeys)
    \/ NewGroupOfValuesKey(MaxSharedKeys)
    \/ UpdateShared
    \/ SwitchTwin(Tree)

SpecShared == Init /\ [][NextShared]_vars

\* C10: the two twins of a pair return equal values for predicate, label,
\* description and order_idx, once both are built and after any update and
\* switch_twin.
C10_TwinsShareAttributes ==
    \A pr \in TwinPairs :
        /\ predicate(World, pr[1]) = predicate(World, pr[2])
        /\ label(World, pr[1]) = label(World, pr[2])
        /\ description(World, pr[1]) = description(World, pr[2])
        /\ keys[pr[1]].order_idx = keys[pr[2]].order_idx

\* C11: a write of a predicate, label, description or order_idx that is not
\* None on the twin of a pair that is not the main one leaves the four
\* attributes as they were on both twins; on the main twin it gives the
\* attribute written its new value on both twins.
C11_NonMainWriteIsNoOp ==
    [][(/\ ret'.op \in {"label", "description", "predicate", "order_idx"}
        /\ ret'.res = 1 /\ ret'.exc = "none"
        /\ HasTwin(World, ret'.key)) =>
       LET k == ret'.key
           t == keys[k].m_twin
       IN  IF ~keys[k].main_twin
           THEN \A x \in {k, t} :
                    /\ predicate(World', x) = predicate(World, x)
                    /\ label(World', x) = label(World, x)
                    /\ description(World', x) = description(World, x)
                    /\ keys'[x].order_idx = keys[x].order_idx
           ELSE \A x \in {k, t} :
                    /\ ret'.op = "predicate" => predicate(World', x) = 2
                    /\ ret'.op = "label" => label(World', x) = PyStr(3)
                    /\ ret'.op = "description" =>
                           description(World', x) = PyStr(4)
                    /\ ret'.op = "order_idx" => keys'[x].order_idx = 1]_vars

(***************************************************************************)
(* The removal of the groups without children.                             *)
(***************************************************************************)
MaxCleanKeys == 5

\* root.clean()
Clean ==
    /\ ret.exc = "none"
    /\ Commit(clean(World), "clean", 1, 0)

\* k.kill(preserve_twin=True) on an object key
KillPreservingTwin ==
    \E k \in Tree :
        /\ ret.exc = "none"
        /\ keys[k].cls \in ObjectClasses
        /\ Commit(unload_actionsbook(
                      IF keys[k].cls = "GroupOfPropertiesKey"
                      THEN GroupOfPropertiesKey_kill(clear_actionsbook(World),
                                                     k, TRUE)
                      ELSE ObjectKey_kill(clear_actionsbook(World), k, TRUE)),
                  "kill_preserve_twin", k, 0)

NextClean ==
    \/ NewValueKey(MaxCleanKeys)
    \/ NewGroupOfPropertiesKey(MaxCleanKeys)
    \/ NewGroupOfValuesKey(MaxCleanKeys)
    \/ Clean
    \/ KillPreservingTwin
    \/ Reset

SpecClean == Init /\ [][NextClean]_vars

\* C12: clean() raises nothing, removes from the tree every group below the
\* root that has no children when it is called and records it in the drop
\* list of the batch it returns.
C12_CleanRemovesChildlessGroups ==
    [][ret'.op = "clean" =>
       /\ ret'.exc = "none"
       /\ \A g \in Groups :
            (g # 1 /\ keys[g].children = <<>>) =>
                /\ ~AttachedIn(keys', g)
                /\ InSeq(g, ret'.batch.drop)]_vars

\* C13: when clean() or kill(preserve_twin=True) meets a property group
\* without children that has a twin value key, the call raises nothing,
\* the value key stays among the children of the parent and is no longer a
\* twin.
C13_PreservedTwinIsAlone ==
    [][\A g \in Groups :
        (/\ keys[g].cls = "GroupOfPropertiesKey"
         /\ keys[g].children = <<>>
         /\ HasTwin(World, g)
         /\ \/ ret'.op = "clean"
            \/ ret'.op = "kill_preserve_twin" /\ ret'.key = g) =>
            /\ ret'.exc = "none"
            /\ InSeq(keys[g].m_twin, keys'[keys[g].parent].children)
            /\ keys'[keys[g].m_twin].m_twin = 0
            /\ ~keys'[keys[g].m_twin].main_twin]_vars

(***************************************************************************)
(* The size of the pool of languages.                                      *)
(***************************************************************************)
\* the children of every translation group hold pairwise distinct allowed
\* languages and the pool is what they leave
DistinctAllowed ==
    /\ PoolCountsAllChildren /\ DistinctLanguages
    /\ \A g \in TranslationGroups : Held(Children(g)) \subseteq Allowed

\* C14: starting from translation groups whose children hold pairwise
\* distinct allowed languages, a construction, add, drop or change_language
\* that raises nothing and gives no key a language that was not available
\* keeps the size of the pool plus the number of value children equal to
\* the number of allowed languages.
C14_PoolSizePlusChildren ==
    [][(/\ ret.exc = "none" /\ ret'.exc = "none"
        /\ DistinctAllowed
        /\ \A g \in TranslationGroups : \A c \in Children(g)' :
              (AttachedIn(keys', g) /\ keys'[c].cls = "ValueKey") =>
                 \/ /\ c \in Children(g)
                    /\ value_language(World', c) = value_language(World, c)
                 \/ value_language(World', c) \in Pool(g)) =>
       /\ DistinctAllowed'
       /\ \A g \in TranslationGroups' :
            Len(keys'[g].available_languages)
                + Cardinality({c \in Children(g)' : keys'[c].cls = "ValueKey"})
            = Len(langlist)]_vars

\* a change of language has just drawn from the pool of a group that keeps
\* a language available
C14_Witness ==
    /\ ret.op = "change_language" /\ ret.exc = "none"
    /\ ret.batch.languages # <<>>
    /\ DistinctAllowed
    /\ \E g \in TranslationGroups :
          /\ ret.key \in Children(g)
          /\ keys[g].button # 0

(***************************************************************************)
(* The pool of languages, drawn from and written to.                       *)
(***************************************************************************)
MaxPoolKeys == 4

Languages == <<"fr", "en", "de">>

\* a value key in a translation group, without value nor language
NewPlainTranslation(bound) ==
    \E p \in Groups :
        /\ keys[p].cls = "TranslationGroupKey"
        /\ New("ValueKey", [KW EXCEPT !.parent = p], bound)

\* g.language_in(l) and g.language_out(l), called on their own; res tells
\* the language
LanguageCall ==
    \E g \in Groups : \E i \in 1..Len(Languages) :
        /\ ret.exc = "none"
        /\ keys[g].cls = "TranslationGroupKey"
        /\ \/ Commit(unload_actionsbook(
                         language_in(clear_actionsbook(World), g, Languages[i])),
                     "language_in", g, i)
           \/ Commit(unload_actionsbook(
                         language_out(clear_actionsbook(World), g,
                                      Languages[i])),
                     "language_out", g, i)

NextPool ==
    \/ NewTranslationGroupKey(MaxPoolKeys)
    \/ NewTranslationButtonKey(MaxPoolKeys)
    \/ NewPlainTranslation(MaxPoolKeys)
    \/ LanguageCall
    \/ Reset

SpecPool == Init /\ [][NextPool]_vars

\* C15: a value key built in a translation group without value nor language
\* takes the first language of the pool, which leaves the pool, the button
\* being hidden when and only when the pool is then empty; with an empty
\* pool the construction raises IntegrityBreach.
C15_FirstAvailableLanguage ==
    [][(ret'.op = "ValueKey" /\ keys[ret'.key].cls = "TranslationGroupKey") =>
       LET g == ret'.key
           pool == keys[g].available_languages
       IN  IF pool = <<>> THEN ret'.exc = "IntegrityBreach"
           ELSE /\ ret'.exc = "none"
                /\ value_language(World', ret'.res) = pool[1]
                /\ keys'[g].available_languages = Tail(pool)
                /\ keys[g].button # 0 =>
                       (is_hidden(World', keys[g].button) <=> Tail(pool) = <<>>)
      ]_vars

\* the first key of a group with a button: language fr, pool en, button shown
C15_Witness ==
    /\ ret.op = "ValueKey" /\ ret.exc = "none"
    /\ keys[ret.key].cls = "TranslationGroupKey"
    /\ keys[ret.key].children = <<ret.res>>
    /\ keys[ret.res].value_language = "fr"
    /\ keys[ret.key].available_languages = <<"en">>
    /\ keys[ret.key].button # 0
    /\ ~is_hidden(World, keys[ret.key].button)

\* C17: language_out(l) when l is not available, and language_in(l) when l
\* is not allowed or is available, change nothing and record nothing; the
\* second of two same calls in a row changes nothing and records nothing.
C17_PoolCallsIdempotent ==
    [][/\ (/\ ret'.op = "language_out"
           /\ ~InSeq(Languages[ret'.res],
                     keys[ret'.key].available_languages)) => NoEffect
       /\ (/\ ret'.op = "language_in"
           /\ \/ ~InSeq(Languages[ret'.res], langlist)
              \/ InSeq(Languages[ret'.res],
                       keys[ret'.key].available_languages)) => NoEffect
       /\ (/\ ret'.op \in {"language_in", "language_out"}
           /\ ret.op = ret'.op /\ ret.key = ret'.key /\ ret.res = ret'.res)
              => NoEffect]_vars

\* the second language_in of a language that the first gave back to a pool
\* that has children to notify
C17_Witness ==
    /\ ret.op = "language_in" /\ ret.exc = "none" /\ ret.batch = ActionsBook
    /\ InSeq(Languages[ret.res], keys[ret.key].available_languages)
    /\ keys[ret.key].children # <<>>
    /\ keys[ret.key].button # 0

(***************************************************************************)
(* change_language with the language the key already has.                  *)
(***************************************************************************)
\* the step is k.change_language(l), k a visible value key of a translation
\* group whose language was l already
SameLanguageStep(k) ==
    /\ ret'.op = "change_language" /\ ret'.key = k /\ ret'.exc = "none"
    /\ keys[k].cls = "ValueKey"
    /\ IsA(World, keys[k].parent, {"TranslationGroupKey"})
    /\ ~is_hidden(World, k)
    /\ keys[k].value_language # "None"
    /\ keys'[k].value_language = keys[k].value_language

\* C16: change_language(l) on a visible value key of a translation group
\* whose language is l already leaves the set of the available languages
\* as it was, and l is not in it afterwards.
C16_SameLanguageKeepsPool ==
    [][\A k \in Tree : SameLanguageStep(k) =>
          /\ Pool(keys[k].parent)' = Pool(keys[k].parent)
          /\ keys[k].value_language \notin Pool(keys[k].parent)'
      ]_vars

\* C16 (amended): when l is not available before the call, change_language(l)
\* on a visible value key of a translation group whose language is l already
\* leaves the set of the available languages as it was, and l is not in it
\* afterwards.
C16_SameLanguageKeepsPoolWithoutIt ==
    [][\A k \in Tree :
          (/\ SameLanguageStep(k)
           /\ keys[k].value_language \notin Pool(keys[k].parent)) =>
              /\ Pool(keys[k].parent)' = Pool(keys[k].parent)
              /\ keys[k].value_language \notin Pool(keys[k].parent)'
      ]_vars

\* after change_language(fr) on the key that holds fr, en being available
C16_Witness ==
    /\ ret.op = "change_language" /\ ret.exc = "none"
    /\ ret.key \in Tree
    /\ IsA(World, keys[ret.key].parent, {"TranslationGroupKey"})
    /\ keys[ret.key].value_language = "fr"
    /\ keys[keys[ret.key].parent].available_languages = <<"en">>
    /\ InSeq(ret.key, ret.batch.languages)
    /\ DistinctLanguages

(***************************************************************************)
(* The show and hide lists of the actions book a call returns.             *)
(***************************************************************************)
\* C18: in the actions book of an add, drop, switch_twin or change_language,
\* a key is in show only if it was hidden before the call and is not after
\* it, and in hide only if it was not hidden before the call and is after
\* it; the translation button is never in both.
C18_ShowHideAreTransitions ==
    [][(/\ ret'.op \in {"add", "drop", "switch_twin", "change_language"}
        /\ ret'.exc = "none") =>
          \A k \in 1..Len(keys) :
              /\ InSeq(k, ret'.batch.show) =>
                     is_hidden(World, k) /\ ~is_hidden(World', k)
              /\ InSeq(k, ret'.batch.hide) =>
                     ~is_hidden(World, k) /\ is_hidden(World', k)
      ]_vars

(***************************************************************************)
(* The parent of a key, assigned after the construction.                   *)
(***************************************************************************)
MaxParentKeys == 4

\* k.parent = p on a key of the tree other than the root, p a key of the
\* tree or None; res tells p
SetParent ==
    \E k \in Tree \ {1} : \E p \in Tree \cup {0} :
        /\ ret.exc = "none"
        /\ Commit([w |-> parent_setter(World, k, p), batch |-> ActionsBook],
                  "set_parent", k, p)

NextParent ==
    \/ Build(MaxParentKeys)
    \/ SetParent
    \/ Reset

SpecParent == Init /\ [][NextParent]_vars

\* C19: an assignment to the parent of a constructed key other than the
\* root raises ForbiddenOperation and leaves the parent of the key, the
\* children of that parent and the children of the candidate as they were.
C19_ParentIsImmutable ==
    [][ret'.op = "set_parent" =>
          /\ ret'.exc = "ForbiddenOperation"
          /\ keys'[ret'.key].parent = keys[ret'.key].parent
          /\ keys'[keys[ret'.key].parent].children
                 = keys[keys[ret'.key].parent].children
          /\ ret'.res # 0 =>
                 keys'[ret'.res].children = keys[ret'.res].children
      ]_vars

\* the candidate was another key, of a class that the key could have been
\* built under
C19_Witness ==
    /\ ret.op = "set_parent" /\ ret.exc = "ForbiddenOperation"
    /\ ret.res # 0 /\ ret.res # keys[ret.key].parent
    /\ keys[ret.key].cls = "ValueKey"
    /\ validate_parent(World, ret.key, ret.res)

(***************************************************************************)
(* The classes of a key and of its parent.                                 *)
(***************************************************************************)
\* the classes of parent that a key of class cls may have
ParentClasses(cls) ==
    CASE cls = "TabKey" -> {"GroupOfPropertiesKey", "RootKey"}
      [] cls \in GroupOfValuesClasses ->
            {"GroupOfPropertiesKey", "TabKey", "RootKey"}
      [] cls = "GroupOfPropertiesKey" ->
            GroupClasses \ {"TranslationGroupKey"}
      [] cls = "PlusButtonKey" -> {"GroupOfValuesKey"}
      [] cls = "TranslationButtonKey" -> {"TranslationGroupKey"}
      [] OTHER -> GroupClasses

TreeShape ==
    \A p \in Tree :
        /\ \A i \in 1..Len(keys[p].children) :
              keys[p].cls \in ParentClasses(keys[keys[p].children[i]].cls)
        /\ keys[p].button # 0 =>
              keys[p].cls \in ParentClasses(keys[keys[p].button].cls)

\* C20: the construction of a key under a parent of a class that the class
\* of the key does not go with raises ForbiddenOperation, and in every tree
\* each child and each button has a parent of a class it goes with.
C20_ParentClassIsChecked ==
    [][/\ (/\ ret'.op \in KeyClasses
           /\ keys[ret'.key].cls \notin
                 ParentClasses(new_class(World, ret'.op,
                                         [KW EXCEPT !.parent = ret'.key])))
              => ret'.exc = "ForbiddenOperation"
       /\ TreeShape'
      ]_vars

(***************************************************************************)
(* The twin of a key, assigned after the construction.                     *)
(***************************************************************************)
MaxTwinSetKeys == 4

\* a value key or a group of properties, ghost or not; a ghost value key
\* has a value
NewObjectKey(bound) ==
    \E cls \in ObjectClasses : \E p \in Groups : \E gh \in BOOLEAN :
        New(cls, [KW EXCEPT !.parent = p, !.predicate = 1, !.rdftype = 1,
                            !.is_ghost = gh,
                            !.value = IF gh THEN 1 ELSE 0], bound)

\* k.m_twin = c, c a key of the tree; res tells c
SetTwin ==
    \E k \in Tree : \E c \in Tree :
        /\ ret.exc = "none"
        /\ keys[k].cls \in ObjectClasses
        /\ Commit(unload_actionsbook(
                      m_twin_setter(clear_actionsbook(World), k, c)),
                  "m_twin", k, c)

NextTwinSet ==
    \/ NewObjectKey(MaxTwinSetKeys)
    \/ NewGroupOfValuesKey(MaxTwinSetKeys)
    \/ SetTwin
    \/ Reset

SpecTwinSet == Init /\ [][NextTwinSet]_vars

\* the twin attributes of k are after the step what they were before it
TwinAttributesKept(k) ==
    /\ keys'[k].m_twin = keys[k].m_twin
    /\ keys'[k].hidden_m = keys[k].hidden_m
    /\ keys'[k].main_twin = keys[k].main_twin

\* the candidate c cannot be the twin of k: k is a ghost, c is not of the
\* class that goes with the class of k, or the parents differ
BadTwin(k, c) ==
    \/ keys[k].ghost
    \/ keys[c].cls # twin_class(keys[k].cls)
    \/ keys[k].parent # keys[c].parent

MaxKillKeys == 5

\* k.kill(), k a value key or a group of properties
Kill ==
    \E k \in Tree :
        /\ ret.exc = "none"
        /\ keys[k].cls \in ObjectClasses
        /\ Commit(unload_actionsbook(kill(clear_actionsbook(World), k)),
                  "kill", k, 0)

NextKill ==
    \/ NewValueKey(MaxKillKeys)
    \/ NewGroupOfPropertiesKey(MaxKillKeys)
    \/ NewGroupOfValuesKey(MaxKillKeys)
    \/ Kill

SpecKill == Init /\ [][NextKill]_vars

\* the keys below k, k included
RECURSIVE Descendants(_, _)
Descendants(ks, k) ==
    {k} \cup UNION {Descendants(ks, ks[k].children[i]) :
                        i \in 1..Len(ks[k].children)}

\* C22: kill on a key that has a twin takes the key and its twin out of
\* the children of the parent and records a drop for each of them and for
\* no other key; after it a computation of the rows of the parent moves no
\* key, and in a group of values the single-child flag of each child that
\* stays tells whether the true children are fewer than 2; the keys below
\* the killed key and its twin keep their parent and their children.
C22_KillTakesTwinAlong ==
    [][(ret'.op = "kill" /\ HasTwin(World, ret'.key)) =>
       LET k == ret'.key
           t == keys[k].m_twin
           p == keys[k].parent
           w == kill(clear_actionsbook(World), k)
           rows == compute_rows(clear_actionsbook(World'), p)
       IN  /\ ret'.exc = "none"
           /\ keys'[p].children
                 = SelectSeq(keys[p].children, LAMBDA c : c \notin {k, t})
           /\ Len(ret'.batch.drop) = 2
           /\ InSeq(k, ret'.batch.drop) /\ InSeq(t, ret'.batch.drop)
           /\ ~Failed(rows) /\ rows.keys = keys' /\ rows.book.move = <<>>
           /\ keys[p].cls \in GroupOfValuesClasses =>
                 \A i \in 1..Len(real_children(World', p)) :
                     keys'[real_children(World', p)[i]].single
                         <=> true_children_count(World', p) < 2
           /\ \A d \in Descendants(keys, k) \cup Descendants(keys, t) :
                 /\ K(w, d).children = keys[d].children
                 /\ d \notin {k, t} =>
                       /\ K(w, d).parent = keys[d].parent
                       /\ ~InSeq(d, ret'.batch.drop)
      ]_vars

\* the killed pair stood in a group of values where one sibling stays, alone
C22_Witness ==
    /\ ret.op = "kill" /\ ret.exc = "none" /\ Len(ret.batch.drop) = 2
    /\ ret.batch.hide_minus_button # <<>>
    /\ \E g \in Tree : /\ keys[g].cls = "GroupOfValuesKey"
                        /\ Len(keys[g].children) = 1
                        /\ keys[keys[g].children[1]].single
                        /\ InSeq(keys[g].children[1], ret.batch.move)

(***************************************************************************)
(* The order of the children of a group of values.                         *)
(***************************************************************************)
MaxOrderKeys == 5

\* a value key or a group of properties in a group of values or of
\* translation, with or without an index of order and a twin
NewChildOfValues(bound) ==
    \E p \in Groups : \E cls \in ObjectClasses : \E i \in {0, 2} :
    \E t \in TwinCandidates(cls, p) :
        /\ keys[p].cls \in GroupOfValuesClasses
        /\ New(cls, [KW EXCEPT !.parent = p, !.rdftype = 1, !.order_idx = i,
                               !.m_twin = t], bound)

\* k.order_idx = v, k a child or the button of a group of values or of
\* translation, v None or an index; res tells v
WriteOrderIdx ==
    \E k \in Tree \ {1} : \E v \in {0, 2} :
        /\ ret.exc = "none"
        /\ IsA(World, keys[k].parent, GroupOfValuesClasses)
        /\ Commit(unload_actionsbook(
                      order_idx_setter(clear_actionsbook(World), k, v)),
                  "order_idx", k, v)

NextOrder ==
    \/ NewGroupOfValuesKey(MaxOrderKeys)
    \/ NewTranslationGroupKey(MaxOrderKeys)
    \/ NewPlusButtonKey(MaxOrderKeys)
    \/ NewTranslationButtonKey(MaxOrderKeys)
    \/ NewChildOfValues(MaxOrderKeys)
    \/ Add(MaxOrderKeys, Tree)
    \/ Drop
    \/ WriteOrderIdx
    \/ Reset

SpecOrder == Init /\ [][NextOrder]_vars

\* the children of g that have a row: neither ghosts nor twins that are
\* not the main one
Counted(g) ==
    SelectSeq(real_children(World, g),
              LAMBDA c : ~(HasTwin(World, c) /\ ~keys[c].main_twin))

\* C23: in a group of values or of translation the order_idx of each child
\* and of the button is None, the rows of the children that are counted
\* grow strictly along the list of the children, which is the order of
\* their insertion, and the row of the button is greater than all of them.
C23_ValuesKeepInsertionOrder ==
    ret.exc = "none" =>
        \A g \in Tree : keys[g].cls \in GroupOfValuesClasses =>
            /\ \A i \in 1..Len(keys[g].children) :
                  keys[keys[g].children[i]].order_idx = 0
            /\ keys[g].button # 0 => keys[keys[g].button].order_idx = 0
            /\ \A i, j \in 1..Len(keys[g].children) :
                  i < j => keys[g].children[i] < keys[g].children[j]
            /\ ~keys[g].ghost =>
                  /\ \A i, j \in 1..Len(Counted(g)) :
                        i < j => row(World, Counted(g)[i])
                                    < row(World, Counted(g)[j])
                  /\ keys[g].button # 0 =>
                        \A i \in 1..Len(Counted(g)) :
                            row(World, Counted(g)[i])
                                < row(World, keys[g].button)

\* an index was written on the first of three children of a group with a
\* button, and it stays the first
C23_Witness ==
    /\ ret.op = "order_idx" /\ ret.exc = "none" /\ ret.res = 2
    /\ IsA(World, keys[ret.key].parent, GroupOfValuesClasses)
    /\ keys[keys[ret.key].parent].button # 0
    /\ Len(Counted(keys[ret.key].parent)) >= 2
    /\ Counted(keys[ret.key].parent)[1] = ret.key

(***************************************************************************)
(* The mask put on the visible twin of a pair.                             *)
(***************************************************************************)
MaxMaskKeys == 6

\* the number of times g is in s
RECURSIVE Occurrences(_, _)
Occurrences(s, g) ==
    IF s = <<>> THEN 0
    ELSE Occurrences(Tail(s), g) + (IF Head(s) = g THEN 1 ELSE 0)

\* what the caller gets of a call on k: res tells how many times the call
\* went over the rows of the parent of k
Called(r, op, k) ==
    Commit(r, op, k, Occurrences(r.w.passes, keys[k].parent))

\* k.is_hidden_m = True
Mask ==
    \E k \in Tree :
        /\ ret.exc = "none"
        /\ keys[k].cls \in ObjectClasses
        /\ Called(unload_actionsbook(
                      is_hidden_m_setter(clear_actionsbook(World), k, TRUE)),
                  "mask", k)

NextMask ==
    \/ NewGroupOfValuesKey(MaxMaskKeys)
    \/ NewChildOfValues(MaxMaskKeys)
    \/ NewValueKey(MaxMaskKeys)
    \/ Mask

SpecMask == Init /\ [][NextMask]_vars

\* k is the visible key of a pair of twins in a group of values that has
\* two true children, and both twins have a minus button
VisibleTwinOfTwo(k) ==
    /\ keys[k].cls \in ObjectClasses /\ HasTwin(World, k)
    /\ ~is_hidden(World, k)
    /\ IsA(World, keys[k].parent, GroupOfValuesClasses)
    /\ true_children_count(World, keys[k].parent) = 2
    /\ has_minus_button(World, k)
    /\ has_minus_button(World, keys[k].m_twin)

TwinsAdjacent(k) ==
    \E i \in 1..(Len(keys[keys[k].parent].children) - 1) :
        {keys[keys[k].parent].children[i],
         keys[keys[k].parent].children[i + 1]} = {k, keys[k].m_twin}

MaxValues == 2

BlankNodeKinds == {"sh:BlankNode", "sh:BlankNodeOrIRI"}

ValueKinds == {"sh:BlankNodeOrIRI", "sh:Literal", "sh:IRI"}

Generalites == PyStr(1)

Autres == PyStr(2)

\* WidgetsDict.__init__, the user parameters
WidgetsDict_parameters(a) ==
    LET mode == IF a.mode \in {"edit", "read"} THEN a.mode ELSE "edit"
        edit == mode = "edit"
        translation == a.translation /\ edit
    IN  [mode |-> mode, edit |-> edit, translation |-> translation,
         hideBlank |-> a.readHideBlank /\ ~edit,
         hideUnlisted |-> \/ a.readHideUnlisted /\ ~edit
                          \/ a.editHideUnlisted /\ edit,
         onlyCurrentLanguage |->
             \/ a.readOnlyCurrentLanguage /\ ~edit
             \/ a.editHideUnlisted /\ edit /\ ~translation]

\* the language of a literal, "None" for any other value
ValueLanguage(v) == IF InSeq(v, Languages) THEN v ELSE "None"

\* the key sort_by_language sorts on
LanguageIndex(v) ==
    IF InSeq(v, langlist)
    THEN CHOOSE i \in 1..Len(langlist) : langlist[i] = v
    ELSE 9999

\* list.sort is stable
RECURSIVE sort_by_language(_)
sort_by_language(litlist) ==
    IF litlist = <<>> THEN <<>>
    ELSE SelectSeq(sort_by_language(Tail(litlist)),
                   LAMBDA v : LanguageIndex(v) < LanguageIndex(Head(litlist)))
         \o <<Head(litlist)>>
         \o SelectSeq(sort_by_language(Tail(litlist)),
                      LAMBDA v : LanguageIndex(v) >= LanguageIndex(Head(litlist)))

\* RootKey.search_tab: the first tab that is not a ghost and has the label,
\* any tab when label is None; 0 when there is none
search_tab(w, g, lab) ==
    LET tabs == SelectSeq(real_children(w, g),
                          LAMBDA c : /\ K(w, c).cls = "TabKey"
                                     /\ lab = PyNone \/ Str(lab) = K(w, c).label)
    IN  IF tabs = <<>> THEN 0 ELSE tabs[1]

\* the properties of the class of a blank node: one mandatory literal
NodeProperties ==
    <<[kind |-> "sh:Literal", unilang |-> FALSE, is_multiple |-> FALSE,
       is_mandatory |-> TRUE, unlisted |-> FALSE, langString |-> FALSE,
       values |-> <<>>]>>

\* prop_dict: what the schema gives the keys of the property
prop_dict(prop) ==
    [KW EXCEPT !.predicate = 1,
               !.rdftype = IF prop.kind = "sh:Literal" THEN 0 ELSE 1,
               !.xsdtype = IF prop.langString THEN "rdf:langString" ELSE "None"]

multilingual(cfg, prop) == prop.unilang /\ cfg.translation

multiple(cfg, prop) == prop.is_multiple /\ cfg.edit /\ ~prop.unilang

\* values = [...] or [None]
values_of(prop) == IF prop.values = <<>> THEN <<"None">> ELSE prop.values

\* the test of the exclusion of a property
excluded(cfg, prop) ==
    /\ values_of(prop) = <<"None">>
    /\ cfg.hideBlank \/ prop.unlisted
    /\ ~(cfg.edit /\ prop.is_mandatory)

\* the test that makes ghosts of the keys of a property
ghosted(cfg, prop) ==
    /\ values_of(prop) # <<"None">>
    /\ prop.unlisted
    /\ cfg.hideUnlisted
    /\ ~prop.is_mandatory

\* a group gathers the values of the property
grouped(cfg, prop) ==
    \/ Len(values_of(prop)) > 1
    \/ (multilingual(cfg, prop) \/ multiple(cfg, prop)) /\ ~cfg.hideBlank

RECURSIVE build_dict(_, _, _, _, _)

\* the value key of a value: s.node is the property group made for it
value_step(s, cfg, prop, vd, value) ==
    IF Failed(s.w) THEN s
    ELSE IF /\ prop.kind \in ValueKinds
            /\ \/ value \notin {"None", "bnode"}
               \/ ~cfg.hideBlank /\ ~vd.is_ghost
    THEN Then(Construct(s.w, "ValueKey",
                        [vd EXCEPT !.value = IF value = "None" THEN 0 ELSE 1,
                                   !.value_language = ValueLanguage(value)]),
              LAMBDA r :
         [s EXCEPT !.w = r.w,
                   !.made = Append(@, [value |-> value, node |-> s.node,
                                       key |-> r.key])])
    ELSE [s EXCEPT !.made = Append(@, [value |-> value, node |-> s.node,
                                       key |-> 0])]

\* the property group of a value and the properties of its class
node_step(s, cfg, prop, vd, value) ==
    IF Failed(s.w) THEN s
    ELSE IF /\ prop.kind \in BlankNodeKinds
            /\ value = "bnode" \/ (~cfg.hideBlank /\ ~vd.is_ghost)
    THEN Then(Construct(s.w, "GroupOfPropertiesKey", vd), LAMBDA r :
         Then(build_dict([s EXCEPT !.w = r.w], cfg, r.key, NodeProperties, 1),
              LAMBDA s1 :
         value_step([s1 EXCEPT !.node = r.key], cfg, prop,
                    IF prop.kind = "sh:BlankNodeOrIRI"
                    THEN [vd EXCEPT !.m_twin = r.key,
                                    !.is_hidden_m = value # "bnode"]
                    ELSE vd,
                    value)))
    ELSE value_step([s EXCEPT !.node = 0], cfg, prop, vd, value)

\* for value in values; parent.has_real_children is an attribute no class
\* of keys has
RECURSIVE values_loop(_, _, _, _, _, _)
values_loop(s, cfg, prop, pd, values, i) ==
    IF Failed(s.w) \/ i > Len(values) THEN s
    ELSE IF prop.langString /\ cfg.onlyCurrentLanguage /\ values[i] # "None"
    THEN [s EXCEPT !.w = Raise(@, "AttributeError")]
    ELSE values_loop(node_step(s, cfg, prop, pd, values[i]),
                     cfg, prop, pd, values, i + 1)

\* the button of the property
button_step(s, cfg, prop, pd) ==
    IF Failed(s.w) \/ ~(multilingual(cfg, prop) \/ multiple(cfg, prop)) THEN s
    ELSE Then(Construct(s.w,
                        IF multilingual(cfg, prop) THEN "TranslationButtonKey"
                        ELSE "PlusButtonKey", pd), LAMBDA r :
         [s EXCEPT !.w = r.w, !.button = r.key])

\* the group of the property, its values and its button
group_step(s, cfg, prop, pd) ==
    IF ~grouped(cfg, prop)
    THEN button_step(values_loop(s, cfg, prop, pd,
                                 IF prop.langString /\ cfg.onlyCurrentLanguage
                                 THEN sort_by_language(values_of(prop))
                                 ELSE values_of(prop), 1),
                     cfg, prop, pd)
    ELSE Then(Construct(s.w,
                        IF multilingual(cfg, prop) /\ ~pd.is_ghost
                        THEN "TranslationGroupKey" ELSE "GroupOfValuesKey",
                        pd), LAMBDA r :
         button_step(values_loop([s EXCEPT !.w = r.w, !.group = r.key],
                                 cfg, prop, [pd EXCEPT !.parent = r.key],
                                 IF prop.langString /\ cfg.onlyCurrentLanguage
                                 THEN sort_by_language(values_of(prop))
                                 ELSE values_of(prop), 1),
                     cfg, prop, [pd EXCEPT !.parent = r.key]))

\* one turn of the loop on the properties: what was made for the property
\* is added to the log, raised telling that the turn ended on an exception
property_step(s, cfg, parent, prop) ==
    IF excluded(cfg, prop)
    THEN [s EXCEPT !.log = Append(@, [prop |-> prop, parent |-> parent,
                                      excluded |-> TRUE, group |-> 0,
                                      button |-> 0, made |-> <<>>,
                                      raised |-> FALSE])]
    ELSE Then(group_step(
                  [s EXCEPT !.group = 0, !.button = 0, !.made = <<>>,
                            !.node = 0],
                  cfg, prop,
                  [prop_dict(prop) EXCEPT
                      !.is_ghost = ghosted(cfg, prop),
                      !.parent = IF K(s.w, parent).cls = "RootKey"
                                 THEN search_tab(s.w, parent,
                                                 IF prop.unlisted THEN Autres
                                                 ELSE PyNone)
                                 ELSE parent]), LAMBDA s1 :
         [s1 EXCEPT !.log = Append(@, [prop |-> prop, parent |-> parent,
                                       excluded |-> FALSE, group |-> s1.group,
                                       button |-> s1.button,
                                       made |-> s1.made,
                                       raised |-> Failed(s1.w)]),
                    !.group = s.group, !.button = s.button,
                    !.made = s.made, !.node = s.node])

\* WidgetsDict._build_dict: for prop in properties
build_dict(s, cfg, parent, properties, i) ==
    IF Failed(s.w) \/ i > Len(properties) THEN s
    ELSE build_dict(property_step(s, cfg, parent, properties[i]),
                    cfg, parent, properties, i + 1)

\* WidgetsDict.__init__: the root, the tabs, the keys of the properties and
\* the cleaning of the empty groups
WidgetsDict_init(a, properties) ==
    Then(WidgetKey_init([EmptyWorld EXCEPT !.nocomp = no_computation],
                        "RootKey", KW), LAMBDA r0 :
    Then(Construct(r0.w, "TabKey", [KW EXCEPT !.parent = r0.key,
                                              !.label = Generalites,
                                              !.order_idx = 1]), LAMBDA r1 :
    Then(Construct(r1.w, "TabKey", [KW EXCEPT !.parent = r0.key,
                                              !.label = Autres,
                                              !.order_idx = LastIdx]),
         LAMBDA r2 :
    Then(build_dict([w |-> r2.w, log |-> <<>>, group |-> 0, button |-> 0,
                     made |-> <<>>, node |-> 0],
                    WidgetsDict_parameters(a), r0.key, properties, 1),
         LAMBDA s :
    [w |-> IF Failed(s.w) THEN s.w ELSE clean(s.w).w, log |-> s.log]))))

\* the values a property of the kind may have in the metagraph
SchemaValues(kind, langString) ==
    CASE kind = "sh:BlankNode" -> {"bnode"}
      [] kind = "sh:BlankNodeOrIRI" -> {"bnode", "iri"}
      [] kind = "sh:IRI" -> {"iri"}
      [] OTHER -> IF langString THEN {"fr", "en"} ELSE {"lit"}

ValueLists(S) == UNION {[1..n -> S] : n \in 0..MaxValues}

\* the properties of a schema: only literals are rdf:langString, and only
\* rdf:langString properties take one value per language
PropertySet ==
    {p \in [kind : BlankNodeKinds \cup ValueKinds, unilang : BOOLEAN,
            is_multiple : BOOLEAN, is_mandatory : BOOLEAN,
            unlisted : BOOLEAN, langString : BOOLEAN,
            values : ValueLists({"bnode", "iri", "lit", "fr", "en"})] :
        /\ p.langString => p.kind = "sh:Literal"
        /\ p.unilang => p.langString
        /\ \A i \in 1..Len(p.values) :
              p.values[i] \in SchemaValues(p.kind, p.langString)}

\* a mode that is neither 'edit' nor 'read' is "None"
ParameterSet ==
    [mode : {"edit", "read", "None"}, translation : BOOLEAN,
     readHideBlank : BOOLEAN, editHideUnlisted : BOOLEAN,
     readHideUnlisted : BOOLEAN, editOnlyCurrentLanguage : BOOLEAN,
     readOnlyCurrentLanguage : BOOLEAN]

\* WidgetsDict(mode=..., ...) on a metagraph that holds the values of the
\* properties: the dictionary is built on a root of its own, and res keeps
\* the arguments, the attributes of the dictionary and what was made for
\* each property
WidgetsDictNew(Parameters, Properties) ==
    /\ ret.exc = "none"
    /\ ret.op = "RootKey"
    /\ \E a \in Parameters : \E properties \in Properties :
           Then(WidgetsDict_init(a, properties), LAMBDA d :
              Commit([w |-> d.w, batch |-> ActionsBook], "WidgetsDict", 1,
                     [a |-> a, self |-> WidgetsDict_parameters(a),
                      log |-> d.log]))

\* self._build_dict(parent=g) of a dictionary with the parameters a, g the
\* property group that was just built: the call _build_dict makes for the
\* properties of a blank node
BuildDict(Parameters, Properties) ==
    /\ ret.exc = "none"
    /\ ret.op = "GroupOfPropertiesKey"
    /\ \E g \in {ret.res} :
       \E a \in Parameters : \E properties \in Properties :
           Then(build_dict([w |-> World, log |-> <<>>, group |-> 0,
                            button |-> 0, made |-> <<>>, node |-> 0],
                           WidgetsDict_parameters(a), g, properties, 1),
                LAMBDA d :
              Commit([w |-> d.w, batch |-> ActionsBook], "_build_dict", g,
                     [a |-> a, self |-> WidgetsDict_parameters(a),
                      log |-> d.log]))

(***************************************************************************)
(* The parameters of a dictionary.                                         *)
(***************************************************************************)
NextParameters == WidgetsDictNew(ParameterSet, {<<>>})

SpecParameters == Init /\ [][NextParameters]_vars

\* C27: the 'only current language' policy of a dictionary is on in edit
\* mode exactly when editOnlyCurrentLanguage is true and the translation
\* mode is off, and in read mode exactly when readOnlyCurrentLanguage is
\* true; the translation mode is off whenever the mode is not 'edit'.
C27_OnlyCurrentLanguagePolicy ==
    ret.op = "WidgetsDict" =>
        /\ ret.res.self.edit => 
              (ret.res.self.onlyCurrentLanguage <=>
                  ret.res.a.editOnlyCurrentLanguage /\ ~ret.res.self.translation)
        /\ ~ret.res.self.edit =>
              /\ ret.res.self.onlyCurrentLanguage <=>
                    ret.res.a.readOnlyCurrentLanguage
              /\ ~ret.res.self.translation

(***************************************************************************)
(* The builder on one property of the root.                                *)
(***************************************************************************)
\* the parameters __init__ does not read in the mode are at their defaults
BuilderParameters ==
    {a \in ParameterSet :
        /\ ~a.editOnlyCurrentLanguage
        /\ a.mode = "edit" =>
              a.readHideBlank /\ a.readHideUnlisted /\ a.readOnlyCurrentLanguage
        /\ a.mode = "read" => ~a.translation /\ ~a.editHideUnlisted
        /\ a.mode # "None"}

MaxBuilderKeys == 2

NextBuilder ==
    \/ WidgetsDictNew(BuilderParameters, {<<p>> : p \in PropertySet})
    \/ NewGroupOfPropertiesKey(MaxBuilderKeys)
    \/ BuildDict(BuilderParameters, {<<p>> : p \in PropertySet})
    \/ Reset

SpecBuilder == Init /\ [][NextBuilder]_vars

\* what the builder made for its properties, once the dictionary is built
Log == IF ret.op \in {"WidgetsDict", "_build_dict"} THEN ret.res.log ELSE <<>>

\* C25: for a property whose schema allows a blank node or an IRI, the
\* pair of twins the builder makes for a value has its property group
\* visible and its value key masked exactly when the value is a blank node,
\* and its value key visible and its property group masked when the value
\* is an IRI.
C25_TwinVisibilityMatchesValue ==
    \A i \in 1..Len(Log) : \A j \in 1..Len(Log[i].made) :
        (/\ ret.exc = "none"
         /\ Log[i].prop.kind = "sh:BlankNodeOrIRI"
         /\ Log[i].made[j].value # "None"
         /\ Log[i].made[j].node # 0
         /\ Log[i].made[j].key # 0
         /\ Attached(Log[i].made[j].node)
         /\ Attached(Log[i].made[j].key)) =>
            /\ keys[Log[i].made[j].key].m_twin = Log[i].made[j].node
            /\ keys[Log[i].made[j].node].m_twin = Log[i].made[j].key
            /\ (/\ ~keys[Log[i].made[j].node].hidden_m
                /\ keys[Log[i].made[j].key].hidden_m)
               <=> Log[i].made[j].value = "bnode"
            /\ Log[i].made[j].value = "iri" =>
                  /\ ~keys[Log[i].made[j].key].hidden_m
                  /\ keys[Log[i].made[j].node].hidden_m

\* no key was made for the property of an entry of the log
NoKey(e) ==
    /\ e.group = 0 /\ e.button = 0
    /\ \A j \in 1..Len(e.made) : e.made[j].node = 0 /\ e.made[j].key = 0

\* C26: the builder makes no key for a property exactly when the property
\* has no value, is not mandatory in edit mode and is not listed by the
\* template; a listed property without value gets a key in read mode as in
\* edit mode.
C26_NoKeyExactlyWhenBlankAndUnlisted ==
    \A i \in 1..Len(Log) :
        NoKey(Log[i]) <=>
            /\ Log[i].prop.values = <<>>
            /\ ~(Log[i].prop.is_mandatory /\ ret.res.self.edit)
            /\ Log[i].prop.unlisted

\* the group of the property of an entry is a ghost
GhostGroup(e) ==
    /\ e.prop.values # <<>>
    /\ e.prop.unlisted
    /\ ret.res.self.hideUnlisted
    /\ ~e.prop.is_mandatory

\* the property of an entry takes several values, or translations, in the
\* mode of the dictionary
WithButton(e) ==
    \/ e.prop.is_multiple /\ ret.res.self.edit /\ ~e.prop.unilang
    \/ e.prop.unilang /\ ret.res.self.translation

\* C28: for every property the builder processes, a plus button or a
\* translation button is made exactly when the property is multi-valued or
\* translatable and its group is not a ghost; the parent of a button is the
\* group of values made for the property, a translation group for a
\* translation button.
C28_ButtonExactlyWhenMultiple ==
    \A i \in 1..Len(Log) :
        ~Log[i].excluded =>
            /\ Log[i].button # 0 <=> WithButton(Log[i]) /\ ~GhostGroup(Log[i])
            /\ Log[i].button # 0 =>
                  /\ Log[i].group # 0
                  /\ keys[Log[i].button].parent = Log[i].group
                  /\ keys[Log[i].group].button = Log[i].button
                  /\ keys[Log[i].group].cls =
                        IF keys[Log[i].button].cls = "TranslationButtonKey"
                        THEN "TranslationGroupKey" ELSE "GroupOfValuesKey"

(***************************************************************************)
(* The sources of the value keys and the source of their value.            *)
(***************************************************************************)
MaxSourceKeys == 3

\* the lists of sources, <<>> for None
SourceLists == {<<>>, <<1>>, <<2>>, <<1, 2>>}

NewSourcedGroup(bound) ==
    \E p \in Groups : \E src \in SourceLists :
        /\ keys[p].cls \notin GroupOfValuesClasses
        /\ New("GroupOfValuesKey",
               [KW EXCEPT !.parent = p, !.predicate = 1, !.rdftype = 1,
                          !.sources = src], bound)

NewSourcedValue(bound) ==
    \E p \in Groups : \E src \in SourceLists : \E v \in {0, 1, 2} :
        New("ValueKey", [KW EXCEPT !.parent = p, !.predicate = 1,
                                   !.rdftype = 1, !.sources = src,
                                   !.value_source = v], bound)

\* k.sources = src
WriteSources ==
    \E k \in Tree : \E src \in SourceLists :
        /\ ret.exc = "none"
        /\ keys[k].cls \in {"ValueKey", "GroupOfValuesKey"}
        /\ Commit(unload_actionsbook(
                      sources_setter(clear_actionsbook(World), k, src)),
                  "sources", k, src)

\* k.value_source = v
WriteValueSource ==
    \E k \in Tree : \E v \in {0, 1, 2} :
        /\ ret.exc = "none"
        /\ keys[k].cls = "ValueKey"
        /\ Commit(unload_actionsbook(
                      value_source_setter(clear_actionsbook(World), k, v)),
                  "value_source", k, v)

NextSources ==
    \/ NewSourcedGroup(MaxSourceKeys)
    \/ NewSourcedValue(MaxSourceKeys)
    \/ WriteSources
    \/ WriteValueSource
    \/ ChangeSource(Tree)

SpecSources == Init /\ [][NextSources]_vars

\* C29: the source of the value of a value key is None when the key has no
\* sources, and is None or one of the sources of the key otherwise.
C29_ValueSourceAmongSources ==
    \A k \in Tree :
        keys[k].cls = "ValueKey" =>
            \/ keys[k].value_source = 0
            \/ InSeq(keys[k].value_source, sources(World, k))

(***************************************************************************)
(* The label of a value key on a row of its own.                           *)
(***************************************************************************)
MaxLabelKeys == 4

\* a value key with or without a label, a ghost or not, with or without
\* independant_label
NewLabelValue(bound) ==
    \E p \in Groups : \E lab \in {PyNone, PyStr(1)} : \E gh, il \in BOOLEAN :
        New("ValueKey", [KW EXCEPT !.parent = p, !.predicate = 1,
                                   !.label = lab, !.is_ghost = gh,
                                   !.value = IF gh THEN 1 ELSE 0,
                                   !.independant_label = il], bound)

\* k.independant_label = v
WriteIndependantLabel ==
    \E k \in Tree : \E v \in BOOLEAN :
        /\ ret.exc = "none"
        /\ keys[k].cls = "ValueKey"
        /\ Commit(unload_actionsbook(
                      independant_label_setter(clear_actionsbook(World), k, v)),
                  "independant_label", k, v)

NextLabel ==
    \/ NewGroupOfValuesKey(MaxLabelKeys)
    \/ NewLabelValue(MaxLabelKeys)
    \/ WriteIndependantLabel

SpecLabel == Init /\ [][NextLabel]_vars

\* C30: independant_label is False for every value key that is a ghost or
\* has no label, the value keys of the groups of values among them, so that
\* the row of such a key is the one that follows the rows of the keys before
\* it, without a row for a label.
C30_NoLabelRowWithoutLabel ==
    \A k \in Tree :
        (/\ keys[k].cls = "ValueKey"
         /\ ~Bool(World, k) \/ label(World, k) = PyNone) =>
            /\ ~independant_label(World, k)
            /\ \A i \in 1..Len(keys[keys[k].parent].children) :
                  (/\ keys[keys[k].parent].children[i] = k
                   /\ Bool(World, k)
                   /\ \A j \in 1..(i - 1) :
                         ~Bool(World, keys[keys[k].parent].children[j]))
                  => keys[k].row = 0

(***************************************************************************)
(* Requests for a key: the constructor is called and its result, a key of  *)
(* the class asked for, a key of another class or None, is kept.           *)
(***************************************************************************)
MaxRequestKeys == 4

RequestClasses == {"GroupOfPropertiesKey", "GroupOfValuesKey",
                   "TranslationGroupKey", "PlusButtonKey",
                   "TranslationButtonKey"}

\* cls(parent=p, is_ghost=ghost, predicate=..., rdftype=...) with an empty
\* actions book; res holds the call and the key __new__ and __init__ gave
Request(bound) ==
    /\ ret.exc = "none"
    /\ Len(keys) < bound
    /\ \E cls \in RequestClasses : \E p \in Groups : \E ghost \in BOOLEAN :
       LET kw == [KW EXCEPT !.parent = p, !.is_ghost = ghost,
                            !.predicate = 1, !.rdftype = 1]
           r == Construct(clear_actionsbook(World), cls, kw)
       IN  Commit(unload_actionsbook(r.w), "request", p,
                  [cls |-> cls, is_ghost |-> ghost, key |-> r.key])

NextRequest ==
    \/ Request(MaxRequestKeys)
    \/ Reset

SpecRequest == Init /\ [][NextRequest]_vars

\* the request made by the last step, when it ended without exception
Requested(cls) ==
    /\ ret.op = "request"
    /\ ret.exc = "none"
    /\ ret.res.cls = cls

NoGhostTranslationGroup ==
    \A k \in 1..Len(keys) :
        keys[k].cls = "TranslationGroupKey" => ~keys[k].ghost

GhostRequestGivesGroupOfValues ==
    (Requested("TranslationGroupKey")
        /\ (ret.res.is_ghost \/ keys[ret.key].ghost))
    => /\ ret.res.key # 0
       /\ keys[ret.res.key].cls = "GroupOfValuesKey"
       /\ keys[ret.res.key].ghost

\* C31 as stated: no translation group is a ghost, a translation group
\* asked for as a ghost or under a ghost parent is a plain group of values,
\* and a translation button asked for in a group that is not a translation
\* group is a plain plus button.
C31_NoGhostTranslationGroup ==
    /\ NoGhostTranslationGroup
    /\ GhostRequestGivesGroupOfValues
    /\ (Requested("TranslationButtonKey")
            /\ keys[ret.key].cls # "TranslationGroupKey")
       => /\ ret.res.key # 0
          /\ keys[ret.res.key].cls = "PlusButtonKey"

\* C31 amended: the plus button is given in a materialized plain group of
\* values when the button is not asked for as a ghost; in any other parent
\* that is not a translation group, or asked for as a ghost, nothing is
\* created.
C31_PlusButtonInGroupOfValuesOnly ==
    /\ NoGhostTranslationGroup
    /\ GhostRequestGivesGroupOfValues
    /\ (Requested("TranslationButtonKey")
            /\ keys[ret.key].cls # "TranslationGroupKey")
       => IF keys[ret.key].cls = "GroupOfValuesKey" /\ ~keys[ret.key].ghost
             /\ ~ret.res.is_ghost
          THEN /\ ret.res.key # 0
               /\ keys[ret.res.key].cls = "PlusButtonKey"
               /\ keys[ret.key].button = ret.res.key
          ELSE ret.res.key = 0
    /\ (Requested("TranslationButtonKey")
            /\ keys[ret.key].cls = "TranslationGroupKey")
       => IF ret.res.is_ghost THEN ret.res.key = 0
          ELSE /\ ret.res.key # 0
               /\ keys[ret.res.key].cls = "TranslationButtonKey"

\* a ghost translation group was asked for and a plus button was given in
\* place of a translation button
C31_Witness ==
    /\ Requested("TranslationButtonKey")
    /\ ret.res.key # 0
    /\ keys[ret.res.key].cls = "PlusButtonKey"
    /\ \E g \in 1..Len(keys) :
           /\ keys[g].cls = "GroupOfValuesKey"
           /\ keys[g].ghost
           /\ keys[g].parent # 0 /\ ~keys[keys[g].parent].ghost

(***************************************************************************)
(* utils.sort_by_language and utils.pick_translation on lists of values.   *)
(* A value is a Literal with a language (or without: "None") or a plain    *)
(* str; its text may be empty, and an empty Literal, a str, is false.      *)
(***************************************************************************)
MaxLitLen == 3

Lit(lang, text) == [literal |-> TRUE, language |-> lang, text |-> text]

Literals ==
    {Lit("fr", ""), Lit("fr", "a"), Lit("de", ""), Lit("de", "a"),
     Lit("en", "a"), Lit("None", "a"),
     [literal |-> FALSE, language |-> "None", text |-> "a"]}

\* langlist.index(x): the first position, from 0
index(s, x) ==
    (CHOOSE j \in 1..Len(s) : s[j] = x /\ \A l \in 1..(j-1) : s[l] # x) - 1

\* the key of the lambda of sort_by_language
sort_key(v, langs) ==
    IF v.literal /\ InSeq(v.language, langs) THEN index(langs, v.language)
    ELSE 9999

\* list.sort(key=...): each value goes in after the values whose key is
\* not greater, the other way round in the variant
RECURSIVE list_sort_unstable(_, _)
list_sort_unstable(litlist, langs) ==
    IF litlist = <<>> THEN <<>>
    ELSE LET rest == list_sort_unstable(Tail(litlist), langs)
             hk == sort_key(Head(litlist), langs)
         IN  SelectSeq(rest, LAMBDA v : sort_key(v, langs) <= hk)
             \o <<Head(litlist)>>
             \o SelectSeq(rest, LAMBDA v : sort_key(v, langs) > hk)

RECURSIVE list_sort(_, _)
list_sort(litlist, langs) ==
    IF litlist = <<>> THEN <<>>
    ELSE LET rest == list_sort(Tail(litlist), langs)
             hk == sort_key(Head(litlist), langs)
         IN  SelectSeq(rest, LAMBDA v : sort_key(v, langs) < hk)
             \o <<Head(litlist)>>
             \o SelectSeq(rest, LAMBDA v : sort_key(v, langs) >= hk)

\* bool(val) for val a value or None (the empty sequence)
Truth(val) == val # <<>> /\ val[1].text # ""

\* the inner loop of pick_translation: val after the search of language
RECURSIVE inner_loop(_, _, _, _)
inner_loop(litlist, language, i, val) ==
    IF i > Len(litlist) THEN val
    ELSE IF litlist[i].literal /\ litlist[i].language = language
         THEN <<litlist[i]>>
         ELSE inner_loop(litlist, language, i + 1, val)

RECURSIVE outer_loop(_, _, _, _)
outer_loop(litlist, langs, i, val) ==
    IF i > Len(langs) THEN val
    ELSE LET v == inner_loop(litlist, langs[i], 1, val)
         IN  IF Truth(v) THEN v
             ELSE outer_loop(litlist, langs, i + 1, v)

\* lang_arg, the argument langlist, is [isList, list, str]: a list or a
\* tuple, or else a str, made a
\* list of one language when it is not empty
pick_translation(litlist, lang_arg) ==
    IF litlist = <<>> THEN <<>>
    ELSE LET langs == IF lang_arg.isList THEN lang_arg.list
                      ELSE IF lang_arg.str # "" THEN <<lang_arg.str>>
                      ELSE <<>>
             val == outer_loop(litlist, langs, 1, <<>>)
         IN  IF val = <<>> THEN <<litlist[1]>> ELSE val

LangLists ==
    UNION {[1..m -> {"fr", "en", "de"}] : m \in 0..2}

LangArgs ==
    {[isList |-> TRUE, list |-> l, str |-> ""] : l \in LangLists}
    \cup {[isList |-> FALSE, list |-> <<>>, str |-> x] :
              x \in {"", "fr", "en", "de"}}

\* the list at hand: the one the caller built, left sorted by
\* sort_by_language, left as it was by pick_translation
CurrentList ==
    IF ret.op \in {"list", "pick_translation"} THEN ret.res.litlist
    ELSE IF ret.op = "sort_by_language" THEN ret.res.out
    ELSE <<>>

Returned(op, res) ==
    /\ ret' = [op |-> op, key |-> 0, exc |-> "none", batch |-> ActionsBook,
               res |-> res]
    /\ UNCHANGED <<keys, book, no_computation>>

\* the caller puts one more value in its list
AppendValue ==
    /\ Len(CurrentList) < MaxLitLen
    /\ \E v \in Literals :
           Returned("list", [litlist |-> Append(CurrentList, v)])

SortByLanguage ==
    /\ ret.op \in {"list", "RootKey"}
    /\ \E langs \in LangLists :
           Returned("sort_by_language",
                    [litlist |-> CurrentList, langlist |-> langs,
                     out |-> list_sort(CurrentList, langs)])

PickTranslation ==
    /\ ret.op \in {"list", "RootKey"}
    /\ \E lang_arg \in LangArgs :
           Returned("pick_translation",
                    [litlist |-> CurrentList, langlist |-> lang_arg,
                     out |-> pick_translation(CurrentList, lang_arg)])

NextUtils ==
    \/ AppendValue
    \/ SortByLanguage
    \/ PickTranslation

SpecUtils == Init /\ [][NextUtils]_vars

\* the rank the documentation gives a value: the position of its language
\* in langlist, after all positions when it has none
Rank(v, langs) ==
    IF v.literal /\ \E j \in 1..Len(langs) : langs[j] = v.language
    THEN CHOOSE j \in 1..Len(langs) :
             langs[j] = v.language /\ \A l \in 1..(j-1) : langs[l] # v.language
    ELSE Len(langs) + 1

\* C32: the sorted list has the values by increasing rank, the values
\* without a language of langlist last; the values of one rank are in the
\* order they had, so that the result is a permutation of the input.
C32_SortByLanguageStable ==
    ret.op = "sort_by_language" =>
        LET in == ret.res.litlist
            out == ret.res.out
            langs == ret.res.langlist
        IN  /\ Len(out) = Len(in)
            /\ \A i, j \in 1..Len(out) :
                   i < j => Rank(out[i], langs) <= Rank(out[j], langs)
            /\ \A r \in 1..(Len(langs) + 1) :
                   SelectSeq(out, LAMBDA v : Rank(v, langs) = r)
                   = SelectSeq(in, LAMBDA v : Rank(v, langs) = r)

\* a list that had to be reordered, with two values of the same language
C32_Witness ==
    /\ ret.op = "sort_by_language"
    /\ ret.res.out # ret.res.litlist
    /\ \E i, j \in 1..Len(ret.res.out) :
           /\ i < j
           /\ ret.res.out[i] # ret.res.out[j]
           /\ ret.res.out[i].literal /\ ret.res.out[j].literal
           /\ ret.res.out[i].language = ret.res.out[j].language
           /\ InSeq(ret.res.out[i].language, ret.res.langlist)

\* C33: the result is the first literal of the list in the first language
\* of langlist that some literal of the list has, the first value of the
\* list when there is no such language, and None for an empty list.
C33_PickTranslationBestLanguage ==
    ret.op = "pick_translation" =>
        LET litlist == ret.res.litlist
            langs == IF ret.res.langlist.isList THEN ret.res.langlist.list
                     ELSE IF ret.res.langlist.str # ""
                          THEN <<ret.res.langlist.str>> ELSE <<>>
            has(l) == \E i \in 1..Len(litlist) :
                          litlist[i].literal /\ litlist[i].language = l
            best == {j \in 1..Len(langs) :
                         has(langs[j]) /\ \A l \in 1..(j-1) : ~has(langs[l])}
        IN  IF litlist = <<>> THEN ret.res.out = <<>>
            ELSE IF best = {} THEN ret.res.out = <<litlist[1]>>
            ELSE \E j \in best :
                     ret.res.out
                     = <<SelectSeq(litlist,
                                   LAMBDA v : v.literal
                                              /\ v.language = langs[j])[1]>>

(***************************************************************************)
(* The rows compute_rows gives and the row it returns.                     *)
(***************************************************************************)
MaxLayoutKeys == 5

\* what compute_rows returns: None (NoRow) in a ghost group or when
\* computation is suspended, else the row after the last child and, in a
\* group of values, after the button
compute_rows_value(w, g) ==
    IF ~Bool(w, g) \/ w.nocomp \/ K(w, g).cls = "TabKey" THEN NoRow
    ELSE LET r == GroupKey_compute_rows(w, g)
             b == K(r.w, g).button
         IN  IF K(w, g).cls \in GroupOfValuesClasses /\ Bool(r.w, b)
             THEN r.n + rowspan(r.w, b)
             ELSE r.n

\* a value key with or without a twin, a label of its own and a rowspan
NewLaidValue(bound) ==
    \E p \in Groups : \E t \in TwinCandidates("ValueKey", p) :
    \E h, l \in BOOLEAN : \E rs \in {0, 2} :
        /\ t = 0 => ~h
        /\ New("ValueKey", [KW EXCEPT !.parent = p, !.predicate = 1,
                                      !.m_twin = t, !.is_hidden_m = h,
                                      !.label = PyStr(1), !.rowspan = rs,
                                      !.independant_label = l], bound)

\* n = g.compute_rows()
LayoutRows ==
    /\ ret.exc = "none"
    /\ \E g \in Groups :
           Commit(unload_actionsbook(compute_rows(clear_actionsbook(World), g)),
                  "rows", g, compute_rows_value(World, g))

NextLayout ==
    \/ NewLaidValue(MaxLayoutKeys)
    \/ NewGroupOfPropertiesKey(MaxLayoutKeys)
    \/ NewGroupOfValuesKey(MaxLayoutKeys)
    \/ NewPlusButtonKey(MaxLayoutKeys)
    \/ LayoutRows

SpecLayout == Init /\ [][NextLayout]_vars

\* the children of g that have a row of their own, in the order of the list
CountedChildren(g) ==
    SelectSeq(keys[g].children,
              LAMBDA c : /\ ~keys[c].ghost
                         /\ ~(keys[c].cls \in ObjectClasses
                              /\ keys[c].m_twin # 0 /\ ~keys[c].main_twin))

LabelRows(c) == IF independant_label(World, c) THEN 1 ELSE 0

\* the rowspan of c: the one of the property, which is 0 for a ghost, or
\* (masked) 0 for a hidden key as well
SpanOf(c, masked) ==
    IF masked /\ is_hidden(World, c) THEN 0 ELSE rowspan(World, c)

\* the rows of s[1..i], each with the row of its label and its rowspan
RECURSIVE RowsUpTo(_, _, _)
RowsUpTo(s, i, masked) ==
    IF i = 0 THEN 0
    ELSE RowsUpTo(s, i - 1, masked) + LabelRows(s[i]) + SpanOf(s[i], masked)

RowsAsCounted(masked) ==
    (ret.op = "rows" /\ ret.exc = "none" /\ ~keys[ret.key].ghost) =>
        LET g == ret.key
            s == CountedChildren(g)
            b == keys[g].button
            inValues == keys[g].cls \in GroupOfValuesClasses /\ b # 0
        IN  /\ \A i \in 1..Len(s) :
                   keys[s[i]].row = RowsUpTo(s, i - 1, masked) + LabelRows(s[i])
            /\ inValues => keys[b].row = RowsUpTo(s, Len(s), masked)
            /\ ret.res = RowsUpTo(s, Len(s), masked)
                         + (IF inValues THEN SpanOf(b, masked) ELSE 0)

\* C34 as stated: after compute_rows the row of each counted child is the
\* sum, over the counted children before it, of the row of the label and
\* the rowspan, a hidden key or a ghost having rowspan 0, plus the row of
\* its own label; the button and the value returned follow by the same rule.
C34_RowsSumVisibleSpans == RowsAsCounted(TRUE)

\* C34 amended: the same with the rowspan the key has, which is 0 for a
\* ghost only: a masked key takes its rows like a visible one.
C34_RowsSumSpans == RowsAsCounted(FALSE)

\* rows computed in a group with a pair of twins, a label of its own and a
\* key of two rows, the last child not on the row of its rank
C34_Witness ==
    /\ ret.op = "rows" /\ ret.exc = "none"
    /\ LET s == CountedChildren(ret.key) IN
       /\ Len(s) >= 2
       /\ Len(s) < Len(keys[ret.key].children)
       /\ \E i \in 1..Len(s) : independant_label(World, s[i])
       /\ \E i \in 1..Len(s) : rowspan(World, s[i]) = 2
       /\ ret.res > Len(s) + 1

(***************************************************************************)
(* ValueKey.label_row.                                                     *)
(***************************************************************************)
MaxLabelRowKeys == 4

\* 'if not self.row' is true of None and of 0
label_row(w, k) ==
    IF row(w, k) = NoRow \/ row(w, k) = 0 THEN NoRow
    ELSE IF independant_label(w, k) THEN row(w, k) - 1
    ELSE row(w, k)

\* n = k.label_row
ReadLabelRow ==
    /\ ret.exc = "none"
    /\ \E k \in Tree :
           /\ keys[k].cls = "ValueKey"
           /\ ret' = [op |-> "label_row", key |-> k, exc |-> "none",
                      batch |-> ActionsBook, res |-> label_row(World, k)]
    /\ UNCHANGED <<keys, book, no_computation>>

NextLabelRow ==
    \/ NewLaidValue(MaxLabelRowKeys)
    \/ NewGroupOfValuesKey(MaxLabelRowKeys)
    \/ ReadLabelRow

SpecLabelRow == Init /\ [][NextLabelRow]_vars

\* C35: the label of a value key that is not a ghost and has a row is on
\* the row before when the label has a row of its own, on the row of the
\* key otherwise, row 0 included; it is None only for a key without row.
C35_LabelRowFollowsRow ==
    (ret.op = "label_row" /\ ~keys[ret.key].ghost) =>
        IF keys[ret.key].row = NoRow THEN ret.res = NoRow
        ELSE ret.res = keys[ret.key].row
                       - (IF keys[ret.key].independant_label THEN 1 ELSE 0)

(***************************************************************************)
(* Suspended computation and ghost groups.                                 *)
(***************************************************************************)
MaxFrozenKeys == 3

\* a value key, a group of properties or a group of values, ghost or not,
\* with the index of order 2 and with or without a twin
NewFrozenChild(bound) ==
    \E cls \in {"ValueKey", "GroupOfPropertiesKey", "GroupOfValuesKey"} :
    \E p \in Groups : \E ghost \in BOOLEAN :
    \E t \in TwinCandidates(cls, p) :
        /\ cls = "GroupOfValuesKey" => keys[p].cls \notin GroupOfValuesClasses
        /\ New(cls, [KW EXCEPT !.parent = p, !.is_ghost = ghost,
                               !.predicate = 1, !.order_idx = 2, !.m_twin = t,
                               !.rdftype = IF cls = "ValueKey" THEN 0 ELSE 1,
                               !.value = IF ghost THEN 1 ELSE 0], bound)

\* k.order_idx = (1,) and k.rowspan = 2
WriteLayout ==
    /\ ret.exc = "none"
    /\ \E k \in Tree \ {1} :
       \/ Commit(unload_actionsbook(
                     order_idx_setter(clear_actionsbook(World), k, 1)),
                 "order_idx", k, 1)
       \/ /\ keys[k].cls = "ValueKey"
          /\ Commit(unload_actionsbook(
                        rowspan_setter(clear_actionsbook(World), k, 2)),
                    "rowspan", k, 2)

NextFrozen ==
    \/ SetNoComputation
    \/ NewFrozenChild(MaxFrozenKeys)
    \/ Kill
    \/ WriteLayout
    \/ WriteHiddenM

SpecFrozen == Init /\ [][NextFrozen]_vars

FrozenOps ==
    {"ValueKey", "GroupOfPropertiesKey", "GroupOfValuesKey", "kill",
     "order_idx", "rowspan", "is_hidden_m"}

\* C36: while computation is suspended, or in a ghost group, the
\* construction and the kill of a child and a write of order_idx, rowspan
\* or is_hidden_m change no row and no single-child flag, a new key has
\* neither, and no move, show_minus_button or hide_minus_button is recorded.
C36_NoComputationWhenSuspendedOrGhost ==
    [][LET g == IF ret'.op \in {"ValueKey", "GroupOfPropertiesKey",
                                "GroupOfValuesKey"}
                THEN ret'.key ELSE keys[ret'.key].parent
       IN  (ret'.op \in FrozenOps /\ (no_computation \/ keys[g].ghost)) =>
           /\ \A k \in 1..Len(keys) :
                  AttachedIn(keys', k) =>
                      /\ keys'[k].row = keys[k].row
                      /\ keys'[k].single = keys[k].single
           /\ \A k \in (Len(keys) + 1)..Len(keys') :
                  keys'[k].row = NoRow /\ ~keys'[k].single
           /\ ret'.batch.move = <<>>
           /\ ret'.batch.show_minus_button = <<>>
           /\ ret'.batch.hide_minus_button = <<>>]_vars

\* with computation suspended, a key was killed or its index of order
\* written in a group whose rows the same call would have changed
C36_Witness ==
    /\ no_computation
    /\ ret.op \in {"kill", "order_idx"} /\ ret.exc = "none"
    /\ \E g \in Groups :
           /\ ~keys[g].ghost
           /\ compute_rows([World EXCEPT !.nocomp = FALSE], g).keys # keys

(***************************************************************************)
(* add and drop in a group of values.                                      *)
(***************************************************************************)
MaxDropKeys == 5

NextDrop ==
    \/ NewGroupOfValuesKey(MaxDropKeys)
    \/ NewValueKey(MaxDropKeys)
    \/ NewPlusButtonKey(MaxDropKeys)
    \/ Add(MaxDropKeys, Tree)
    \/ Drop

SpecDrop == Init /\ [][NextDrop]_vars

\* the groups of values with a button and a child that is not a ghost
Furnished(ks) ==
    {g \in 1..Len(ks) :
        /\ AttachedIn(ks, g)
        /\ ks[g].cls = "GroupOfValuesKey"
        /\ ks[g].button # 0
        /\ \E i \in 1..Len(ks[g].children) : ~ks[ks[g].children[i]].ghost}

\* C37: drop on the only true child of a group of values removes nothing,
\* so that add and drop leave a child that is not a ghost in every group of
\* values with a button that had one, and add on the visible button of
\* such a group creates a key.
C37_LastChildIsKept ==
    [][/\ (/\ ret'.op = "drop"
           /\ IsA(World, keys[ret'.key].parent, GroupOfValuesClasses)
           /\ is_single_child(World, ret'.key))
          => keys' = keys /\ ret'.batch = ActionsBook
       /\ ret'.op \in {"add", "drop"} => Furnished(keys) \subseteq Furnished(keys')
       /\ (/\ ret'.op = "add"
           /\ keys[ret'.key].parent \in Furnished(keys)
           /\ ~is_hidden(World, ret'.key))
          => ret'.batch.create # <<>>]_vars

(***************************************************************************)
(* The main twin of a pair.                                                *)
(***************************************************************************)
\* C38: of the two twins of a pair exactly one is the main twin, the
\* visible one when exactly one of the two is visible; a key without twin
\* is not a main twin.
C38_OneMainTwinTheVisibleOne ==
    \A k \in Tree :
        keys[k].cls \in ObjectClasses =>
            IF keys[k].m_twin = 0 THEN ~keys[k].main_twin
            ELSE LET t == keys[k].m_twin IN
                 /\ keys[k].main_twin # keys[t].main_twin
                 /\ (~keys[k].hidden_m /\ keys[t].hidden_m)
                    => keys[k].main_twin

(***************************************************************************)
(* The translation button and the pool it draws from.                      *)
(***************************************************************************)
\* C39: add on a translation button never raises IntegrityBreach; an add
\* that creates a key takes exactly one language out of the pool of the
\* group, which never holds more languages than are allowed; with the pool
\* empty the button is hidden, and add returns an empty actions book and
\* changes nothing.
C39_AddDrawsOneLanguage ==
    [][(/\ ret'.op = "add"
        /\ keys[ret'.key].cls = "TranslationButtonKey") =>
          LET g == keys[ret'.key].parent
              pool == keys[g].available_languages
          IN  /\ ret'.exc # "IntegrityBreach"
              /\ Len(pool) <= Len(langlist)
              /\ pool = <<>> =>
                    /\ is_hidden(World, ret'.key)
                    /\ keys' = keys
                    /\ ret'.batch = ActionsBook
              /\ ret'.batch.create # <<>> =>
                    /\ ret'.exc = "none"
                    /\ Len(keys'[g].available_languages) = Len(pool) - 1]_vars

\* an add on the translation button has created a key and emptied the pool
C39_Witness ==
    /\ ret.op = "add" /\ ret.exc = "none"
    /\ keys[ret.key].cls = "TranslationButtonKey"
    /\ ret.batch.create # <<>>
    /\ keys[keys[ret.key].parent].available_languages = <<>>
    /\ is_hidden(World, ret.key)

(***************************************************************************)
(* The empty copy of a property group.                                     *)
(***************************************************************************)
\* the non-ghost children of g of the class and predicate of c
EntriesLike(g, c) ==
    {i \in 1..Len(keys[g].children) :
        LET d == keys[g].children[i]
        IN  /\ ~keys[d].ghost
            /\ keys[d].cls = keys[c].cls
            /\ predicate(World, d) = predicate(World, c)}

\* C40: copy(empty=True) of a non-ghost property group gives a property
\* group with one entry for each entry of the original: as many non-ghost
\* children of each class and predicate, a twin pair being copied once.
C40_EmptyCopyHasEveryEntryOnce ==
    (/\ ret.op = "copy_empty"
     /\ keys[ret.key].cls = "GroupOfPropertiesKey"
     /\ ~keys[ret.key].ghost) =>
        /\ ret.exc = "none" /\ ret.res # 0
        /\ keys[ret.res].cls = "GroupOfPropertiesKey"
        /\ \A i \in 1..Len(keys[ret.key].children) :
              LET c == keys[ret.key].children[i]
              IN  ~keys[c].ghost =>
                     Cardinality(EntriesLike(ret.res, c))
                         = Cardinality(EntriesLike(ret.key, c))

====
